---- MODULE Spec2Model ----
(***************************************************************************)
(* gitlab-meta-runner: the registration reconciler of `configure`          *)
(* (src/src/configure.rs) and the poll-driven job dispatch loop of `run`   *)
(* (src/src/run.rs).                                                       *)
(***************************************************************************)
EXTENDS Integers, Sequences, FiniteSets, TLC

(***************************************************************************)
(* Bounds                                                                  *)
(***************************************************************************)
NumNames == 2          \* runner instance names that may appear in config/tokens
MaxPasses == 2         \* configure invocations in one behaviour

NumJobs == 4           \* job ids the remote platform may report pending
MaxGroupSize == 2      \* largest launch.group_size tried
MaxInstances == 3      \* instances in the maps given to find_match and the sort
MaxPriority == 2       \* largest launch priority tried
MaxFairJobs == 2       \* job ids reported pending in the fair poll loop
MaxRetryJobs == 3      \* job ids reported pending in the poll loop with history
MaxWait == 2           \* seconds the clock of one launch may advance
MaxExitCode == 1       \* largest exit code of a launched process
PipeCapacity == 1      \* bytes a pipe holds before a write to it blocks
NumCustomVars == 1     \* variable names besides the built-in ones
NumPrepareJobs == 2    \* jobs whose prepare steps run at the same time

Names == 1..NumNames
JobIds == 1..NumJobs

(***************************************************************************)
(* Generic helpers                                                         *)
(***************************************************************************)
Range(s) == {s[i] : i \in DOMAIN s}

\* every order in which a hash set can hand out its elements
Orders(S) == {s \in [1..Cardinality(S) -> S] : \A i, j \in 1..Cardinality(S) : s[i] = s[j] => i = j}

\* HashMap::insert
MapInsert(m, k, v) == [x \in (DOMAIN m) \cup {k} |-> IF x = k THEN v ELSE m[x]]

EmptyMap == [x \in {} |-> 0]

(***************************************************************************)
(* Remote API results (gitlab::api::ApiError<RestError>)                   *)
(***************************************************************************)
NOT_FOUND == 404
SERVER_ERROR == 500

OkUnit == [ok |-> TRUE, kind |-> "Ok", status |-> 0, reg |-> 0]
OkReg(id) == [ok |-> TRUE, kind |-> "Ok", status |-> 0, reg |-> id]
ApiErr(kind, status) == [ok |-> FALSE, kind |-> kind, status |-> status, reg |-> 0]
InFlight == [ok |-> FALSE, kind |-> "InFlight", status |-> 0, reg |-> 0]

ApiErrors ==
    { ApiErr("GitlabService", NOT_FOUND),
      ApiErr("GitlabWithStatus", NOT_FOUND),
      ApiErr("GitlabWithStatus", SERVER_ERROR),
      ApiErr("Auth", 0) }

\* is_error_not_found
IsErrorNotFoundLoose(v) == ~v.ok /\ v.kind # "InFlight"
IsErrorNotFoundNever(v) == FALSE
IsErrorNotFound(v) ==
    CASE v.ok -> FALSE
      [] v.kind = "GitlabService" /\ v.status = NOT_FOUND -> TRUE
      [] v.kind = "GitlabWithStatus" -> v.status = NOT_FOUND
      [] OTHER -> FALSE

\* RunnerRegistration {id, token}; the token is the secret bound to the id
Registration(id) == [id |-> id, token |-> id]

(***************************************************************************)
(* State                                                                   *)
(***************************************************************************)
VARIABLES
    \* configure / update_registrations
    runners,         \* config.runners keys (desired instances)
    store,           \* the token file: name -> registration
    rpc,             \* position of update_registrations
    tokens,          \* map read from the token file
    current_keys,
    new_keys,
    to_update,
    update_results,
    to_add,
    add_results,
    to_delete,
    delete_results,
    new_tokens,
    errors,
    ret,             \* what update_registrations returned
    writes,          \* successful write_tokens calls of this pass
    passes,
    prev_pass,       \* history: how the previous configure invocation ended
    \* run / run_impl
    successful_job_ids,
    lpc,             \* position of the poll task
    mpc,             \* position of run() itself
    cancelled,       \* cancel_token
    tick_ready,      \* timer.tick() would complete now
    iter_order,      \* iteration order of the config.runners HashMap
    group_size,      \* config.launch.group_size
    pending_jobs,    \* what fetch_pending_project_jobs returned this cycle
    grouped_matched_jobs,
    launch_results,
    poll_result,     \* `result` of the last timeout(run_impl) in the loop
    failed_job_ids,  \* history: jobs of the batches the last completed cycle logged as failed
    \* find_match applied to drawn inputs
    m_instances,     \* instances: name -> tags
    m_job_tags,      \* job.tags
    m_order_a,       \* iteration order of the map in one run
    m_order_b,       \* iteration order of the map in another run
    m_match_a,       \* what find_match returned under m_order_a
    m_match_b,       \* what find_match returned under m_order_b
    \* the group sort of run_impl applied to drawn inputs
    s_priority,      \* name -> the instance's launch priority
    s_groups,        \* the groups as collected from the HashMap
    s_sorted,        \* the groups after sort_by_key
    \* one launch_runner call and its child process
    p_config,        \* the GitLabLaunchConfig: stdin and timeout
    p_pc,            \* position of launch_runner
    p_proc,          \* the child process: none, running, exited, killed
    p_code,          \* exit code of the exited process
    p_elapsed,       \* seconds waited in time::timeout
    p_stdin,         \* the write to the child's stdin
    p_status,        \* outcome of timeout(child.status())
    p_stdout,        \* read_to_end of the child's stdout
    p_stderr,        \* read_to_end of the child's stderr
    p_ret,           \* what launch_runner returned
    \* configure after update_registrations returned
    c_pc,            \* position of configure
    instantiated_configs, \* the Vec<RegisteredRunner> built from the returned map
    generated,       \* the generated gitlab-runner config file: its [[runners]] entries
    c_ret,           \* what configure returned
    \* history of the poll loop
    exited_zero_job_ids, \* jobs of batches that exited zero in earlier cycles
    \* the pipes between launch_runner and its child
    o_left,          \* bytes the child still has to write, per stream
    o_pipe,          \* bytes written and not yet read, per stream
    \* one variable lookup of string_expand_impl, and check before run
    x_context,       \* which expand_*_config_template calls string_expand_impl
    x_var,           \* the variable name handed to the lookup
    x_variables,     \* names defined in instance.config_variables
    x_env,           \* names defined in the process environment
    x_result,        \* what the lookup returned
    x_config,        \* the config file: what each section's template refers to
    x_pc,            \* position of run() around check and initialize
    x_state,         \* state.config as read by initialize
    x_unwraps,       \* outcome of the two unwraps of run_impl
    \* prepare_step of the custom executor, one per concurrent job
    e_policy,        \* config.pull_policy
    e_image,         \* the file at filepath
    e_tmp,           \* tmp_filepath -> the file there
    e_pc,            \* job id -> position of its prepare_step
    e_exists,        \* job id -> image_exists as read by it
    e_pulled,        \* job id -> its prepare_step got to pull_command.spawn()
    e_ret            \* job id -> what its prepare_step returned

rvars == <<runners, store, rpc, tokens, current_keys, new_keys, to_update,
           update_results, to_add, add_results, to_delete, delete_results,
           new_tokens, errors, ret, writes, passes, prev_pass>>

lvars == <<successful_job_ids, lpc, mpc, cancelled, tick_ready, iter_order,
           group_size, pending_jobs, grouped_matched_jobs, launch_results,
           poll_result, failed_job_ids>>

mvars == <<m_instances, m_job_tags, m_order_a, m_order_b, m_match_a, m_match_b>>

svars == <<s_priority, s_groups, s_sorted>>

pvars == <<p_config, p_pc, p_proc, p_code, p_elapsed, p_stdin, p_status, p_stdout,
           p_stderr, p_ret>>

cvars == <<c_pc, instantiated_configs, generated, c_ret>>

hvars == <<exited_zero_job_ids>>

ovars == <<o_left, o_pipe>>

xvars == <<x_context, x_var, x_variables, x_env, x_result, x_config, x_pc, x_state,
           x_unwraps>>

evars == <<e_policy, e_image, e_tmp, e_pc, e_exists, e_pulled, e_ret>>

nvars == <<cvars, hvars, ovars, xvars, evars>>

fvars == <<mvars, svars, pvars, nvars>>

vars == <<rvars, lvars, fvars>>

\* no configure invocation has returned yet
NoPass == [ran |-> FALSE, persisted |-> FALSE, add_failed |-> FALSE, changed |-> FALSE]

NoRet == [kind |-> "None"]
RetOk == [kind |-> "Ok"]
RetErr(e) == [kind |-> "Err", err |-> e]

ApiError(op, key, r) == [op |-> op, key |-> key, kind |-> r.kind, status |-> r.status]
IoError(what) == [op |-> what, key |-> 0, kind |-> "Io", status |-> 0]

\* find_match not applied to anything
MatchAtRest ==
    /\ m_instances = EmptyMap
    /\ m_job_tags = <<>>
    /\ m_order_a = <<>>
    /\ m_order_b = <<>>
    /\ m_match_a = "NotEvaluated"
    /\ m_match_b = "NotEvaluated"

\* the group sort not applied to anything
SortAtRest ==
    /\ s_priority = EmptyMap
    /\ s_groups = <<>>
    /\ s_sorted = <<>>

\* launch_runner not called
LaunchAtRest ==
    /\ p_config = [stdin |-> "None", timeout |-> 0]
    /\ p_pc = "idle"
    /\ p_proc = "none"
    /\ p_code = 0
    /\ p_elapsed = 0
    /\ p_stdin = "unwritten"
    /\ p_status = "none"
    /\ p_stdout = "unread"
    /\ p_stderr = "unread"
    /\ p_ret = "None"

\* a section of the config file that is missing, or present with a template
\* referring to variable v
NoSection == [present |-> FALSE, ref |-> "NAME"]
Section(v) == [present |-> TRUE, ref |-> v]
NoConfig == [runner |-> Section("NAME"), executor |-> NoSection, launch |-> NoSection,
             runners |-> EmptyMap]

\* result of one variable lookup: the level that defined the name, or the error
Found(level) == [ok |-> TRUE, from |-> level]
Undefined == [ok |-> FALSE, from |-> "Undefined variable"]
NotExpanded == [ok |-> FALSE, from |-> "NotEvaluated"]

\* the image file: missing, or moved there by the prepare step of job `by`
\* (0: by an earlier invocation), as a completely pulled image or not
NoImage == [present |-> FALSE, by |-> 0, complete |-> FALSE]
Image(by, complete) == [present |-> TRUE, by |-> by, complete |-> complete]

\* configure not past update_registrations, no generated config file
ConfigureAtRest ==
    /\ c_pc = "idle"
    /\ instantiated_configs = <<>>
    /\ generated = <<>>
    /\ c_ret = NoRet

\* no cycle remembered
HistoryAtRest == exited_zero_job_ids = [completed |-> {}, abandoned |-> {}]

\* a child without output
PipesAtRest ==
    /\ o_left = [stdout |-> 0, stderr |-> 0]
    /\ o_pipe = [stdout |-> 0, stderr |-> 0]

\* no template expanded, no check run
ExpandAtRest ==
    /\ x_context = "runner"
    /\ x_var = "NAME"
    /\ x_variables = {}
    /\ x_env = {}
    /\ x_result = NotExpanded
    /\ x_config = NoConfig
    /\ x_pc = "idle"
    /\ x_state = NoConfig
    /\ x_unwraps = "NotEvaluated"

\* no prepare_step called
PrepareAtRest ==
    /\ e_policy = "always"
    /\ e_image = NoImage
    /\ e_tmp = <<>>
    /\ e_pc = <<>>
    /\ e_exists = <<>>
    /\ e_pulled = <<>>
    /\ e_ret = <<>>

LaterAtRest ==
    ConfigureAtRest /\ HistoryAtRest /\ PipesAtRest /\ ExpandAtRest /\ PrepareAtRest

PureAtRest == MatchAtRest /\ SortAtRest /\ LaunchAtRest /\ LaterAtRest

\* no configure invocation
ReconcileAtRest ==
    /\ runners = {}
    /\ store = EmptyMap
    /\ rpc = "idle"
    /\ tokens = EmptyMap
    /\ current_keys = {}
    /\ new_keys = {}
    /\ to_update = <<>>
    /\ update_results = <<>>
    /\ to_add = <<>>
    /\ add_results = <<>>
    /\ to_delete = <<>>
    /\ delete_results = <<>>
    /\ new_tokens = EmptyMap
    /\ errors = <<>>
    /\ ret = NoRet
    /\ writes = 0
    /\ passes = 0
    /\ prev_pass = NoPass

\* the poll task before run() is called
RunAtRest ==
    /\ successful_job_ids = {}
    /\ lpc = "select"
    /\ mpc = "ctrl_c"
    /\ cancelled = FALSE
    /\ tick_ready = TRUE
    /\ iter_order = <<>>
    /\ group_size = 1
    /\ pending_jobs = <<>>
    /\ grouped_matched_jobs = <<>>
    /\ launch_results = <<>>
    /\ poll_result = "None"
    /\ failed_job_ids = {}

\* the token file before the first configure: any registrations of old ids
InitReconcile ==
    /\ RunAtRest
    /\ PureAtRest
    /\ prev_pass = NoPass
    /\ runners \in SUBSET Names
    /\ \E C \in SUBSET Names : store = [k \in C |-> Registration(k)]
    /\ rpc = "idle"
    /\ tokens = EmptyMap
    /\ current_keys = {}
    /\ new_keys = {}
    /\ to_update = <<>>
    /\ update_results = <<>>
    /\ to_add = <<>>
    /\ add_results = <<>>
    /\ to_delete = <<>>
    /\ delete_results = <<>>
    /\ new_tokens = EmptyMap
    /\ errors = <<>>
    /\ ret = NoRet
    /\ writes = 0
    /\ passes = 0

(***************************************************************************)
(* update_registrations: the three result loops                            *)
(***************************************************************************)
\* body of the loop over update results (configure.rs 121-133)
HandleUpdateResultDrop(st, key, result) ==
    IF IsErrorNotFound(result)
    THEN [st EXCEPT !.current_keys = @ \ {key},
                    !.new_keys = @ \ {key}]
    ELSE [st EXCEPT !.new_tokens = MapInsert(@, key, tokens[key]),
                    !.errors = IF result.ok THEN @
                               ELSE Append(@, ApiError("update", key, result))]
HandleUpdateResult(st, key, result) ==
    IF IsErrorNotFound(result)
    THEN [st EXCEPT !.current_keys = @ \ {key},
                    !.new_keys = @ \cup {key}]
    ELSE [st EXCEPT !.new_tokens = MapInsert(@, key, tokens[key]),
                    !.errors = IF result.ok THEN @
                               ELSE Append(@, ApiError("update", key, result))]

\* body of the loop over add results (configure.rs 155-165)
HandleAddResultAbort(st, key, result) ==
    IF result.ok
    THEN [st EXCEPT !.new_tokens = MapInsert(@, key, Registration(result.reg))]
    ELSE [st EXCEPT !.new_tokens = EmptyMap,
                    !.errors = Append(@, ApiError("add", key, result))]
HandleAddResult(st, key, result) ==
    IF result.ok
    THEN [st EXCEPT !.new_tokens = MapInsert(@, key, Registration(result.reg))]
    ELSE [st EXCEPT !.errors = Append(@, ApiError("add", key, result))]

\* body of the loop over delete results (configure.rs 167-174)
HandleDeleteResultStrict(st, key, result) ==
    IF ~result.ok
    THEN [st EXCEPT !.errors = Append(@, ApiError("delete", key, result))]
    ELSE st
HandleDeleteResult(st, key, result) ==
    IF IsErrorNotFound(result)
    THEN st
    ELSE IF ~result.ok
         THEN [st EXCEPT !.errors = Append(@, ApiError("delete", key, result))]
         ELSE st

RECURSIVE FoldUpdates(_, _)
FoldUpdates(i, st) ==
    IF i > Len(to_update) THEN st
    ELSE FoldUpdates(i + 1, HandleUpdateResult(st, to_update[i], update_results[i]))

RECURSIVE FoldAdds(_, _)
FoldAdds(i, st) ==
    IF i > Len(to_add) THEN st
    ELSE FoldAdds(i + 1, HandleAddResult(st, to_add[i], add_results[i]))

RECURSIVE FoldDeletes(_, _)
FoldDeletes(i, st) ==
    IF i > Len(to_delete) THEN st
    ELSE FoldDeletes(i + 1, HandleDeleteResult(st, to_delete[i], delete_results[i]))

\* to_update / to_add / to_delete as sets (configure.rs 106, 135, 136)
ToUpdateKeysAll(cur, new) == cur
ToUpdateKeys(cur, new) == cur \cap new
ToAddKeysAll(cur, new) == new
ToAddKeys(cur, new) == new \ cur
ToDeleteKeysAll(cur, new) == cur
ToDeleteKeys(cur, new) == cur \ new

AnyDone(results) == results = <<>> \/ \E i \in DOMAIN results : results[i] # InFlight
AllDone(results) == \A i \in DOMAIN results : results[i] # InFlight
Issue(keys) == [i \in DOMAIN keys |-> InFlight]

(***************************************************************************)
(* update_registrations: steps between its await points                    *)
(***************************************************************************)
\* how the invocation that just returned ended
PassSummary ==
    [ran |-> rpc = "returned",
     persisted |-> rpc = "returned" /\ writes = 1,
     add_failed |-> \E i \in DOMAIN add_results : ~add_results[i].ok,
     changed |-> to_add # <<>> \/ to_delete # <<>>]

\* configure() is invoked and read_tokens succeeds (configure.rs 49-96)
StartConfigure ==
    /\ rpc \in {"idle", "returned"}
    /\ passes < MaxPasses
    /\ passes' = passes + 1
    /\ tokens' = store
    /\ rpc' = "init"
    /\ current_keys' = {}
    /\ new_keys' = {}
    /\ to_update' = <<>>
    /\ update_results' = <<>>
    /\ to_add' = <<>>
    /\ add_results' = <<>>
    /\ to_delete' = <<>>
    /\ delete_results' = <<>>
    /\ new_tokens' = EmptyMap
    /\ errors' = <<>>
    /\ ret' = NoRet
    /\ writes' = 0
    /\ prev_pass' = PassSummary
    /\ UNCHANGED <<runners, store>>
    /\ UNCHANGED <<lvars, fvars>>

\* init_client or fetch_project fails (configure.rs 97-102)
InitClientFails ==
    /\ rpc = "init"
    /\ ret' = RetErr(IoError("init"))
    /\ rpc' = "returned"
    /\ UNCHANGED <<runners, store, tokens, current_keys, new_keys, to_update,
                   update_results, to_add, add_results, to_delete,
                   delete_results, new_tokens, errors, writes, passes>>
    /\ UNCHANGED <<prev_pass, lvars, fvars>>

\* configure.rs 103-117: key sets, one update call per registered runner
IssueUpdates ==
    /\ rpc = "init"
    /\ current_keys' = DOMAIN tokens
    /\ new_keys' = runners
    /\ to_update' \in Orders(ToUpdateKeys(DOMAIN tokens, runners))
    /\ update_results' = Issue(to_update')
    /\ rpc' = "updating"
    /\ UNCHANGED <<runners, store, tokens, to_add, add_results, to_delete,
                   delete_results, new_tokens, errors, ret, writes, passes>>
    /\ UNCHANGED <<prev_pass, lvars, fvars>>

\* the server answers one update call
UpdateReturns ==
    /\ rpc = "updating"
    /\ \E i \in DOMAIN update_results, r \in {OkUnit} \cup ApiErrors :
         /\ update_results[i] = InFlight
         /\ update_results' = [update_results EXCEPT ![i] = r]
    /\ UNCHANGED <<runners, store, rpc, tokens, current_keys, new_keys, to_update,
                   to_add, add_results, to_delete, delete_results, new_tokens,
                   errors, ret, writes, passes>>
    /\ UNCHANGED <<prev_pass, lvars, fvars>>

\* configure.rs 117-152: all updates joined, results handled, add calls issued
UpdatesJoined ==
    /\ rpc = "updating"
    /\ AllDone(update_results)
    /\ LET st == FoldUpdates(1, [current_keys |-> current_keys, new_keys |-> new_keys,
                                 new_tokens |-> EmptyMap, errors |-> <<>>])
       IN /\ current_keys' = st.current_keys
          /\ new_keys' = st.new_keys
          /\ new_tokens' = st.new_tokens
          /\ errors' = st.errors
          /\ to_add' \in Orders(ToAddKeys(st.current_keys, st.new_keys))
          /\ to_delete' \in Orders(ToDeleteKeys(st.current_keys, st.new_keys))
    /\ add_results' = Issue(to_add')
    /\ rpc' = "adding"
    /\ UNCHANGED <<runners, store, tokens, to_update, update_results,
                   delete_results, ret, writes, passes>>
    /\ UNCHANGED <<prev_pass, lvars, fvars>>

\* the id the server hands out for a runner created in this pass: never an
\* id it handed out before
FreshId(key) == passes * NumNames + key

\* the server answers one create call
AddReturns ==
    /\ rpc = "adding"
    /\ \E i \in DOMAIN add_results :
         /\ add_results[i] = InFlight
         /\ \E r \in {OkReg(FreshId(to_add[i]))} \cup ApiErrors :
              add_results' = [add_results EXCEPT ![i] = r]
    /\ UNCHANGED <<runners, store, rpc, tokens, current_keys, new_keys, to_update,
                   update_results, to_add, to_delete, delete_results, new_tokens,
                   errors, ret, writes, passes>>
    /\ UNCHANGED <<prev_pass, lvars, fvars>>

\* the delete futures polled without waiting for the creates
AddsJoinedEager ==
    /\ rpc = "adding"
    /\ delete_results' = Issue(to_delete)
    /\ rpc' = "deleting"
    /\ UNCHANGED <<runners, store, tokens, current_keys, new_keys, to_update,
                   update_results, to_add, add_results, to_delete, new_tokens,
                   errors, ret, writes, passes>>
    /\ UNCHANGED <<prev_pass, lvars, fvars>>
\* configure.rs 152-153: all creates joined, only now are the delete futures polled
AddsJoined ==
    /\ rpc = "adding"
    /\ AllDone(add_results)
    /\ delete_results' = Issue(to_delete)
    /\ rpc' = "deleting"
    /\ UNCHANGED <<runners, store, tokens, current_keys, new_keys, to_update,
                   update_results, to_add, add_results, to_delete, new_tokens,
                   errors, ret, writes, passes>>
    /\ UNCHANGED <<prev_pass, lvars, fvars>>

\* the server answers one delete call
DeleteReturns ==
    /\ rpc = "deleting"
    /\ \E i \in DOMAIN delete_results, r \in {OkUnit} \cup ApiErrors :
         /\ delete_results[i] = InFlight
         /\ delete_results' = [delete_results EXCEPT ![i] = r]
    /\ UNCHANGED <<runners, store, rpc, tokens, current_keys, new_keys, to_update,
                   update_results, to_add, add_results, to_delete, new_tokens,
                   errors, ret, writes, passes>>
    /\ UNCHANGED <<prev_pass, lvars, fvars>>

\* what lines 155-174 leave in new_tokens and errors
Collected == FoldDeletes(1, FoldAdds(1, [new_tokens |-> new_tokens, errors |-> errors]))

\* configure.rs 181-184: report the first error we found
FirstErrorLast(errs) == IF errs # <<>> THEN RetErr(errs[Len(errs)]) ELSE RetOk
FirstError(errs) == IF errs # <<>> THEN RetErr(Head(errs)) ELSE RetOk

\* configure.rs 153-185 with write_tokens succeeding
DeletesJoinedWriteOk ==
    /\ rpc = "deleting"
    /\ AllDone(delete_results)
    /\ new_tokens' = Collected.new_tokens
    /\ errors' = Collected.errors
    /\ store' = Collected.new_tokens
    /\ writes' = writes + 1
    /\ ret' = FirstError(Collected.errors)
    /\ rpc' = "returned"
    /\ UNCHANGED <<runners, tokens, current_keys, new_keys, to_update,
                   update_results, to_add, add_results, to_delete,
                   delete_results, passes>>
    /\ UNCHANGED <<prev_pass, lvars, fvars>>

\* configure.rs 153-175 with write_tokens failing: File::create failed (file
\* untouched) or write_all failed after the file was truncated
DeletesJoinedWriteFails ==
    /\ rpc = "deleting"
    /\ AllDone(delete_results)
    /\ new_tokens' = Collected.new_tokens
    /\ errors' = Collected.errors
    /\ store' \in {store, EmptyMap}
    /\ ret' = RetErr(IoError("write_tokens"))
    /\ rpc' = "returned"
    /\ UNCHANGED <<runners, tokens, current_keys, new_keys, to_update,
                   update_results, to_add, add_results, to_delete,
                   delete_results, writes, passes>>
    /\ UNCHANGED <<prev_pass, lvars, fvars>>

NextReconcile ==
    \/ StartConfigure
    \/ InitClientFails
    \/ IssueUpdates
    \/ UpdateReturns
    \/ UpdatesJoined
    \/ AddReturns
    \/ AddsJoined
    \/ DeleteReturns
    \/ DeletesJoinedWriteOk
    \/ DeletesJoinedWriteFails

SpecReconcile == InitReconcile /\ [][NextReconcile]_vars

(***************************************************************************)
(* configure: update_registrations, then the generated config file         *)
(***************************************************************************)
\* the order that lists S ascending
Ascending(S) == CHOOSE s \in Orders(S) : \A i, j \in DOMAIN s : i < j => s[i] < s[j]

Panicked == [kind |-> "Panic"]

\* RegisteredRunner {name, config, url, registration} (configure.rs 38-44); the
\* expanded config and the url play no part in the registrations
RegisteredRunnerStale(name, registrations) ==
    [name |-> name,
     registration |-> IF name \in DOMAIN tokens THEN tokens[name] ELSE registrations[name]]
RegisteredRunner(name, registrations) ==
    [name |-> name, registration |-> registrations[name]]

\* how the map over config.runners ends (configure.rs 35-46): at each name, in
\* the map's iteration order, first the template expansion may return Err
\* (40-41), then registrations.get(name).unwrap() may panic (43)
InstantiateOutcome(order, failing, registrations) ==
    LET bad == {i \in DOMAIN order :
                    order[i] \in failing \/ order[i] \notin DOMAIN registrations}
        first == CHOOSE i \in bad : \A j \in bad : i <= j
    IN  IF bad = {} THEN "Ok"
        ELSE IF order[first] \in failing THEN "Err" ELSE "Panic"

\* instantiate_gitlab_runner_configurations when it returns Ok (configure.rs 30-47)
InstantiateGitlabRunnerConfigurations(order, registrations) ==
    [i \in DOMAIN order |-> RegisteredRunner(order[i], registrations)]

\* what the actions of configure leave alone
ConfigureFrame == <<lvars, mvars, svars, pvars, hvars, ovars, xvars, evars>>

\* configure() is invoked once, at the call of update_registrations (configure.rs
\* 49-57); the two files are as an earlier successful configure left them
InitConfigure ==
    /\ RunAtRest
    /\ MatchAtRest /\ SortAtRest /\ LaunchAtRest
    /\ HistoryAtRest /\ PipesAtRest /\ ExpandAtRest /\ PrepareAtRest
    /\ prev_pass = NoPass
    /\ runners \in SUBSET Names
    /\ \E C \in SUBSET Names : store = [k \in C |-> Registration(k)]
    /\ rpc = "idle"
    /\ tokens = EmptyMap
    /\ current_keys = {}
    /\ new_keys = {}
    /\ to_update = <<>>
    /\ update_results = <<>>
    /\ to_add = <<>>
    /\ add_results = <<>>
    /\ to_delete = <<>>
    /\ delete_results = <<>>
    /\ new_tokens = EmptyMap
    /\ errors = <<>>
    /\ ret = NoRet
    /\ writes = 0
    /\ passes = 0
    /\ c_pc = "updating"
    /\ instantiated_configs = <<>>
    /\ generated = InstantiateGitlabRunnerConfigurations(Ascending(DOMAIN store), store)
    /\ c_ret = NoRet

\* update_registrations is entered (configure.rs 57, 93)
StartConfigureOnce ==
    /\ passes = 0
    /\ c_pc = "updating"
    /\ StartConfigure

\* update_registrations returned Err and `?` returns it (configure.rs 57-60)
ConfigureReturnsError ==
    /\ c_pc = "updating"
    /\ rpc = "returned"
    /\ ret.kind = "Err"
    /\ c_ret' = ret
    /\ c_pc' = "returned"
    /\ UNCHANGED <<instantiated_configs, generated>>
    /\ UNCHANGED <<rvars, ConfigureFrame>>

\* update_registrations returned Ok(new_tokens); the entries are built from it
\* (configure.rs 61-62)
InstantiateConfigs ==
    /\ c_pc = "updating"
    /\ rpc = "returned"
    /\ ret.kind = "Ok"
    /\ \E order \in Orders(runners), failing \in SUBSET runners :
         LET outcome == InstantiateOutcome(order, failing, new_tokens)
         IN  /\ instantiated_configs' =
                    IF outcome = "Ok"
                    THEN InstantiateGitlabRunnerConfigurations(order, new_tokens)
                    ELSE <<>>
             /\ c_pc' = IF outcome = "Ok" THEN "writing" ELSE "returned"
             /\ c_ret' = CASE outcome = "Ok" -> NoRet
                           [] outcome = "Err" -> RetErr(IoError("instantiate"))
                           [] OTHER -> Panicked
    /\ UNCHANGED generated
    /\ UNCHANGED <<rvars, ConfigureFrame>>

\* write_gitlab_runner_configurations succeeds (configure.rs 63-73, config.rs 423-437)
WriteConfigurations ==
    /\ c_pc = "writing"
    /\ generated' = instantiated_configs
    /\ c_ret' = RetOk
    /\ c_pc' = "returned"
    /\ UNCHANGED instantiated_configs
    /\ UNCHANGED <<rvars, ConfigureFrame>>

\* write_gitlab_runner_configurations fails: File::create failed (file
\* untouched) or a later step failed after the file was truncated
WriteConfigurationsFails ==
    /\ c_pc = "writing"
    /\ generated' \in {generated, <<>>}
    /\ c_ret' = RetErr(IoError("write_gitlab_runner_configurations"))
    /\ c_pc' = "returned"
    /\ UNCHANGED instantiated_configs
    /\ UNCHANGED <<rvars, ConfigureFrame>>

NextConfigure ==
    \/ StartConfigureOnce
    \/ InitClientFails
    \/ IssueUpdates
    \/ UpdateReturns
    \/ UpdatesJoined
    \/ AddReturns
    \/ AddsJoined
    \/ DeleteReturns
    \/ DeletesJoinedWriteOk
    \/ DeletesJoinedWriteFails
    \/ ConfigureReturnsError
    \/ InstantiateConfigs
    \/ WriteConfigurations
    \/ WriteConfigurationsFails

SpecConfigure == InitConfigure /\ [][NextConfigure]_vars

(***************************************************************************)
(* run: configuration and remote jobs                                      *)
(***************************************************************************)
\* config.runners: two instances that tie on their number of tags
Instances ==
    [A |-> [tags |-> <<"x", "y">>, launch_order |-> 2],
     B |-> [tags |-> <<"x", "z">>, launch_order |-> 1]]

InstanceNames == DOMAIN Instances

\* a job's tag_list; it does not change while the job is pending
JobTags(id) ==
    CASE id % 4 = 1 -> <<"x", "y">>
      [] id % 4 = 2 -> <<"x">>
      [] id % 4 = 3 -> <<"q">>
      [] OTHER -> <<"x">>

\* every list of distinct jobs the remote API may report as pending
PendingLists == UNION {Orders(S) : S \in SUBSET JobIds}

(***************************************************************************)
(* find_match and check_jobs                                               *)
(***************************************************************************)
\* the filter of find_match (run.rs 59-65)
EligibleAny(instances, name, tags) == TRUE
EligibleIn(instances, name, tags) ==
    LET requested_tags == Range(tags)
        available_tags == Range(instances[name].tags)
    IN Cardinality(requested_tags \cap available_tags) = Cardinality(requested_tags)

\* an iterator that yields its first item that passes the filter
FindFirstEligible(instances, order, tags) ==
    LET cand == SelectSeq(order, LAMBDA n : EligibleIn(instances, n, tags))
    IN IF cand = <<>> THEN "None" ELSE cand[1]
\* find_match (run.rs 55-71): min_by_key over the map's iteration order, the
\* first minimum wins
FindMatchIn(instances, order, tags) ==
    LET cand == SelectSeq(order, LAMBDA n : EligibleIn(instances, n, tags))
    IN IF cand = <<>> THEN "None"
       ELSE LET i == CHOOSE i \in DOMAIN cand :
                       /\ \A j \in DOMAIN cand :
                            Len(instances[cand[i]].tags) <= Len(instances[cand[j]].tags)
                       /\ \A j \in 1..(i - 1) :
                            Len(instances[cand[j]].tags) > Len(instances[cand[i]].tags)
            IN cand[i]

\* find_match on state.config.runners and a pending job
Eligible(name, id) == EligibleIn(Instances, name, JobTags(id))
FindMatch(order, id) == FindMatchIn(Instances, order, JobTags(id))

\* the dedup filter of check_jobs (run.rs 79)
NotYetSuccessfulOff(succ, id) == TRUE
NotYetSuccessful(succ, id) == id \notin succ

\* check_jobs (run.rs 77-84): the matched jobs, in fetch order
CheckJobs(jobs, succ, order) ==
    SelectSeq(jobs, LAMBDA id : NotYetSuccessful(succ, id) /\ FindMatch(order, id) # "None")

(***************************************************************************)
(* run_impl: grouping, chunking, collecting                                *)
(***************************************************************************)
\* run.rs 174-180: one group per matched instance, jobs in fetch order
GroupJobs(matched, order, name) == SelectSeq(matched, LAMBDA id : FindMatch(order, id) = name)
GroupNames(matched, order) == {FindMatch(order, matched[i]) : i \in DOMAIN matched}

\* run.rs 181-182: the map's groups in any order, then a stable sort by launch_order
SortedGroupOrders(names) ==
    {s \in Orders(names) :
        \A i, j \in DOMAIN s : i < j => Instances[s[i]].launch_order <= Instances[s[j]].launch_order}

\* chunks(group_size) over n items
NumChunksFloor(n, g) == n \div g
NumChunks(n, g) == (n + g - 1) \div g
Chunk(jobs, c, g) ==
    SubSeq(jobs, (c - 1) * g + 1, IF c * g < Len(jobs) THEN c * g ELSE Len(jobs))

\* only the first batch is polled, the others wait for it
LaunchFirstOnly(groups) ==
    [g \in DOMAIN groups |->
        [c \in 1..NumChunks(Len(groups[g].jobs), group_size) |->
            IF g = 1 /\ c = 1 THEN "Running" ELSE "Waiting"]]
\* run.rs 187-211: join_all over the groups of join_all over the chunks polls
\* every launch_runner future, so every batch's process is spawned
LaunchAll(groups) ==
    [g \in DOMAIN groups |->
        [c \in 1..NumChunks(Len(groups[g].jobs), group_size) |-> "Running"]]

\* the launched batches: <<group index, chunk index>>, one process each
Batches == UNION {{<<g, c>> : c \in DOMAIN launch_results[g]} : g \in DOMAIN launch_results}

BatchJobs(g, c) == Range(Chunk(grouped_matched_jobs[g].jobs, c, group_size))

\* get_generated_config_file_path (template.rs 190)
GeneratedConfigFilePath == "generated_config_file_path"

\* expand_launch_config_template (template.rs 179-218): the values bound to
\* the variables of the launch template
ExpandLaunchConfigTemplate(instance_name, num_jobs) ==
    [NAME |-> instance_name, CONFIG |-> GeneratedConfigFilePath, NUM_JOBS |-> num_jobs]

\* run.rs 194-196: expanded once per group and shared by all its batches
BatchLaunchConfig(g, c) ==
    ExpandLaunchConfigTemplate(grouped_matched_jobs[g].name, group_size)

\* run.rs 213-221: the zip of a group's job chunks with its launch results
VerdictOfFirst(g, c) == launch_results[g][1]
VerdictFor(g, c) == launch_results[g][c]

\* nothing is reported when some launch failed
RunImplResultAllOrNothing ==
    IF \E x \in Batches : VerdictFor(x[1], x[2]) = "Err" THEN {}
    ELSE UNION {BatchJobs(b[1], b[2]) : b \in Batches}
\* every batched job is reported, whatever its launch returned
RunImplResultAll == UNION {BatchJobs(b[1], b[2]) : b \in Batches}
\* nothing is reported
RunImplResultNone == {}
\* run.rs 212-242: ids of all jobs of the batches whose launch returned Ok
RunImplResult == UNION {BatchJobs(b[1], b[2]) : b \in {x \in Batches : VerdictFor(x[1], x[2]) = "Ok"}}

\* run.rs 233-241: ids of all jobs of the batches logged as failed
RunImplFailed == UNION {BatchJobs(b[1], b[2]) : b \in {x \in Batches : VerdictFor(x[1], x[2]) = "Err"}}

LaunchesDone == \A b \in Batches : launch_results[b[1]][b[2]] # "Running"

(***************************************************************************)
(* run: the poll task and the main task                                    *)
(***************************************************************************)
\* state after initialize() and tokio::spawn (run.rs 246-255)
InitRun ==
    /\ runners = {}
    /\ store = EmptyMap
    /\ rpc = "idle"
    /\ tokens = EmptyMap
    /\ current_keys = {}
    /\ new_keys = {}
    /\ to_update = <<>>
    /\ update_results = <<>>
    /\ to_add = <<>>
    /\ add_results = <<>>
    /\ to_delete = <<>>
    /\ delete_results = <<>>
    /\ new_tokens = EmptyMap
    /\ errors = <<>>
    /\ ret = NoRet
    /\ writes = 0
    /\ passes = 0
    /\ prev_pass = NoPass
    /\ PureAtRest
    /\ successful_job_ids = {}
    /\ lpc = "select"
    /\ mpc = "ctrl_c"
    /\ cancelled = FALSE
    /\ tick_ready = TRUE
    /\ iter_order \in Orders(InstanceNames)
    /\ group_size \in 1..MaxGroupSize
    /\ pending_jobs = <<>>
    /\ grouped_matched_jobs = <<>>
    /\ launch_results = <<>>
    /\ poll_result = "None"
    /\ failed_job_ids = {}

\* the interval elapses
TimerFires ==
    /\ lpc # "exited"
    /\ ~tick_ready
    /\ tick_ready' = TRUE
    /\ UNCHANGED <<successful_job_ids, lpc, mpc, cancelled, iter_order, group_size,
                   pending_jobs, grouped_matched_jobs, launch_results, poll_result>>
    /\ UNCHANGED <<failed_job_ids, rvars, fvars>>

\* a cycle started although timer.tick() is not ready
SelectTickUnready ==
    /\ lpc = "select"
    /\ tick_ready' = FALSE
    /\ lpc' = "fetching"
    /\ pending_jobs' = <<>>
    /\ grouped_matched_jobs' = <<>>
    /\ launch_results' = <<>>
    /\ poll_result' = "None"
    /\ UNCHANGED <<successful_job_ids, mpc, cancelled, iter_order, group_size>>
    /\ UNCHANGED <<failed_job_ids, rvars, fvars>>
\* select! takes the tick branch; run_impl starts and awaits the fetch (run.rs 258-267)
SelectTick ==
    /\ lpc = "select"
    /\ tick_ready
    /\ tick_ready' = FALSE
    /\ lpc' = "fetching"
    /\ pending_jobs' = <<>>
    /\ grouped_matched_jobs' = <<>>
    /\ launch_results' = <<>>
    /\ poll_result' = "None"
    /\ UNCHANGED <<successful_job_ids, mpc, cancelled, iter_order, group_size>>
    /\ UNCHANGED <<failed_job_ids, rvars, fvars>>

\* select! takes the cancellation branch (run.rs 260-263)
SelectCancelledAnywhere ==
    /\ lpc # "exited"
    /\ cancelled
    /\ lpc' = "exited"
    /\ UNCHANGED <<successful_job_ids, mpc, cancelled, tick_ready, iter_order, group_size,
                   pending_jobs, grouped_matched_jobs, launch_results, poll_result>>
    /\ UNCHANGED <<failed_job_ids, rvars, fvars>>
SelectCancelled ==
    /\ lpc = "select"
    /\ cancelled
    /\ lpc' = "exited"
    /\ UNCHANGED <<successful_job_ids, mpc, cancelled, tick_ready, iter_order, group_size,
                   pending_jobs, grouped_matched_jobs, launch_results, poll_result>>
    /\ UNCHANGED <<failed_job_ids, rvars, fvars>>

\* a failed fetch that ends the poll task
FetchFailsExits ==
    /\ lpc = "fetching"
    /\ poll_result' = "Err"
    /\ lpc' = "exited"
    /\ UNCHANGED <<successful_job_ids, mpc, cancelled, tick_ready, iter_order, group_size,
                   pending_jobs, grouped_matched_jobs, launch_results>>
    /\ UNCHANGED <<failed_job_ids, rvars, fvars>>
\* fetch_pending_project_jobs fails: run_impl returns Err (run.rs 76, 172, 272)
FetchFails ==
    /\ lpc = "fetching"
    /\ poll_result' = "Err"
    /\ lpc' = "select"
    /\ UNCHANGED <<successful_job_ids, mpc, cancelled, tick_ready, iter_order, group_size,
                   pending_jobs, grouped_matched_jobs, launch_results>>
    /\ UNCHANGED <<failed_job_ids, rvars, fvars>>

\* the fetch returns; jobs are matched, grouped, sorted and every batch is launched
\* (run.rs 76-84, 172-211)
FetchReturnsFrom(lists) ==
    /\ lpc = "fetching"
    /\ \E jobs \in lists :
         LET matched == CheckJobs(jobs, successful_job_ids, iter_order)
         IN /\ pending_jobs' = jobs
            /\ \E s \in SortedGroupOrders(GroupNames(matched, iter_order)) :
                 grouped_matched_jobs' =
                     [g \in DOMAIN s |-> [name |-> s[g],
                                          jobs |-> GroupJobs(matched, iter_order, s[g])]]
    /\ launch_results' = LaunchAll(grouped_matched_jobs')
    /\ lpc' = "launching"
    /\ UNCHANGED <<successful_job_ids, mpc, cancelled, tick_ready, iter_order, group_size,
                   poll_result>>
    /\ UNCHANGED <<failed_job_ids, rvars, fvars>>

FetchReturns ==
    /\ lpc = "fetching"
    /\ FetchReturnsFrom(PendingLists)

\* batch b's launch_runner returns (run.rs 87-152)
LaunchReturnsOf(b) ==
    /\ lpc = "launching"
    /\ launch_results[b[1]][b[2]] = "Running"
    /\ \E r \in {"Ok", "Err"} :
         launch_results' = [launch_results EXCEPT ![b[1]][b[2]] = r]
    /\ UNCHANGED <<successful_job_ids, lpc, mpc, cancelled, tick_ready, iter_order,
                   group_size, pending_jobs, grouped_matched_jobs, poll_result>>
    /\ UNCHANGED <<failed_job_ids, rvars, fvars>>

\* a launch whose Ok is entered into the set at once
LaunchReturnsRecording ==
    /\ lpc = "launching"
    /\ \E b \in Batches, r \in {"Ok", "Err"} :
         /\ launch_results[b[1]][b[2]] = "Running"
         /\ launch_results' = [launch_results EXCEPT ![b[1]][b[2]] = r]
         /\ successful_job_ids' =
                IF r = "Ok" THEN successful_job_ids \cup BatchJobs(b[1], b[2])
                ELSE successful_job_ids
    /\ UNCHANGED <<lpc, mpc, cancelled, tick_ready, iter_order,
                   group_size, pending_jobs, grouped_matched_jobs, poll_result>>
    /\ UNCHANGED <<failed_job_ids, rvars, fvars>>
\* one batch's launch_runner returns
LaunchReturns == \E b \in Batches : LaunchReturnsOf(b)

\* all launches joined: run_impl returns Ok(successful) (run.rs 211-242, 269-271)
CycleCompletes ==
    /\ lpc = "launching"
    /\ LaunchesDone
    /\ successful_job_ids' = successful_job_ids \cup RunImplResult
    /\ poll_result' = "Ok"
    /\ lpc' = "select"
    /\ UNCHANGED <<mpc, cancelled, tick_ready, iter_order, group_size, pending_jobs,
                   grouped_matched_jobs, launch_results>>
    /\ UNCHANGED <<failed_job_ids, rvars, fvars>>

\* timeout(poll_duration, ..) elapses first: the cycle is dropped (run.rs 267, 273);
\* a whole interval has passed since the tick, so the next tick is due
CycleTimesOutPartial ==
    /\ lpc \in {"fetching", "launching"}
    /\ poll_result' = "Elapsed"
    /\ lpc' = "select"
    /\ tick_ready' = TRUE
    /\ successful_job_ids' = successful_job_ids \cup RunImplResult
    /\ UNCHANGED <<mpc, cancelled, iter_order, group_size, pending_jobs,
                   grouped_matched_jobs, launch_results>>
    /\ UNCHANGED <<failed_job_ids, rvars, fvars>>
CycleTimesOut ==
    /\ lpc \in {"fetching", "launching"}
    /\ poll_result' = "Elapsed"
    /\ lpc' = "select"
    /\ tick_ready' = TRUE
    /\ UNCHANGED <<successful_job_ids, mpc, cancelled, iter_order, group_size, pending_jobs,
                   grouped_matched_jobs, launch_results>>
    /\ UNCHANGED <<failed_job_ids, rvars, fvars>>

\* ctrl_c() completes (signal or listen error); the token is cancelled (run.rs 278-285)
CtrlC ==
    /\ mpc = "ctrl_c"
    /\ cancelled' = TRUE
    /\ mpc' = "joining"
    /\ UNCHANGED <<successful_job_ids, lpc, tick_ready, iter_order, group_size, pending_jobs,
                   grouped_matched_jobs, launch_results, poll_result>>
    /\ UNCHANGED <<failed_job_ids, rvars, fvars>>

\* run() returning without waiting for the poll task
RunReturnsEarly ==
    /\ mpc = "joining"
    /\ mpc' = "returned"
    /\ UNCHANGED <<successful_job_ids, lpc, cancelled, tick_ready, iter_order, group_size,
                   pending_jobs, grouped_matched_jobs, launch_results, poll_result>>
    /\ UNCHANGED <<failed_job_ids, rvars, fvars>>
\* task.await completes and run() returns (run.rs 285-288)
RunReturns ==
    /\ mpc = "joining"
    /\ lpc = "exited"
    /\ mpc' = "returned"
    /\ UNCHANGED <<successful_job_ids, lpc, cancelled, tick_ready, iter_order, group_size,
                   pending_jobs, grouped_matched_jobs, launch_results, poll_result>>
    /\ UNCHANGED <<failed_job_ids, rvars, fvars>>

NextRun ==
    \/ TimerFires
    \/ SelectTick
    \/ SelectCancelled
    \/ FetchFails
    \/ FetchReturns
    \/ LaunchReturns
    \/ CycleCompletes
    \/ CycleTimesOut
    \/ CtrlC
    \/ RunReturns

SpecRun == InitRun /\ [][NextRun]_vars

(***************************************************************************)
(* the poll loop under fair scheduling, with few jobs on the remote         *)
(***************************************************************************)
FairJobIds == 1..MaxFairJobs
FetchReturnsFew ==
    /\ lpc = "fetching"
    /\ FetchReturnsFrom(UNION {Orders(S) : S \in SUBSET FairJobIds})

NextRunFair ==
    \/ TimerFires
    \/ SelectTick
    \/ SelectCancelled
    \/ FetchFails
    \/ FetchReturnsFew
    \/ LaunchReturns
    \/ CycleCompletes
    \/ CycleTimesOut
    \/ CtrlC
    \/ RunReturns

\* scheduling: select! picks among its ready branches at random, so the
\* cancellation branch is taken if it is ready again and again (run.rs 258-264);
\* timeout(poll_duration, ..) ends every cycle (run.rs 267); the runtime runs
\* the main task once the poll task has finished (run.rs 285)
SpecRunFair ==
    /\ InitRun
    /\ [][NextRunFair]_vars
    /\ SF_vars(SelectCancelled)
    /\ WF_vars(CycleTimesOut)
    /\ WF_vars(RunReturns)

(***************************************************************************)
(* the poll loop before the shutdown signal, remembering what the last     *)
(* completed cycle logged as failed                                        *)
(***************************************************************************)
\* CycleCompletes, with the jobs of the error! lines (run.rs 233-241) kept
CycleCompletesLogged ==
    /\ lpc = "launching"
    /\ LaunchesDone
    /\ successful_job_ids' = successful_job_ids \cup RunImplResult
    /\ failed_job_ids' = RunImplFailed
    /\ poll_result' = "Ok"
    /\ lpc' = "select"
    /\ UNCHANGED <<mpc, cancelled, tick_ready, iter_order, group_size, pending_jobs,
                   grouped_matched_jobs, launch_results>>
    /\ UNCHANGED <<rvars, fvars>>

RetryJobIds == 1..MaxRetryJobs
FetchReturnsRetry ==
    /\ lpc = "fetching"
    /\ FetchReturnsFrom(UNION {Orders(S) : S \in SUBSET RetryJobIds})

NextRetry ==
    \/ TimerFires
    \/ SelectTick
    \/ FetchFails
    \/ FetchReturnsRetry
    \/ LaunchReturns
    \/ CycleCompletesLogged
    \/ CycleTimesOut

SpecRetry == InitRun /\ [][NextRetry]_vars

(***************************************************************************)
(* the poll loop before the shutdown signal, remembering which jobs were   *)
(* in batches whose launch returned Ok in earlier cycles                   *)
(***************************************************************************)
\* jobs of the batches of this cycle whose launch_runner has returned Ok
ExitedZero ==
    UNION {BatchJobs(b[1], b[2]) : b \in {x \in Batches : launch_results[x[1]][x[2]] = "Ok"}}

\* what the actions of the remembering loop leave alone
RelaunchFrame == <<failed_job_ids, rvars, mvars, svars, pvars, cvars, ovars, xvars, evars>>

\* CycleCompletes, the cycle's Ok batches remembered as those of a completed cycle
CycleCompletesNoted ==
    /\ lpc = "launching"
    /\ LaunchesDone
    /\ successful_job_ids' = successful_job_ids \cup RunImplResult
    /\ exited_zero_job_ids' =
           [exited_zero_job_ids EXCEPT !.completed = @ \cup ExitedZero]
    /\ poll_result' = "Ok"
    /\ lpc' = "select"
    /\ UNCHANGED <<mpc, cancelled, tick_ready, iter_order, group_size, pending_jobs,
                   grouped_matched_jobs, launch_results>>
    /\ UNCHANGED RelaunchFrame

\* CycleTimesOut, the cycle's Ok batches remembered as those of an abandoned cycle
CycleTimesOutNoted ==
    /\ lpc \in {"fetching", "launching"}
    /\ poll_result' = "Elapsed"
    /\ lpc' = "select"
    /\ tick_ready' = TRUE
    /\ exited_zero_job_ids' =
           [exited_zero_job_ids EXCEPT !.abandoned = @ \cup ExitedZero]
    /\ UNCHANGED <<successful_job_ids, mpc, cancelled, iter_order, group_size, pending_jobs,
                   grouped_matched_jobs, launch_results>>
    /\ UNCHANGED RelaunchFrame

NextRelaunch ==
    \/ TimerFires
    \/ SelectTick
    \/ FetchFails
    \/ FetchReturnsFew
    \/ LaunchReturns
    \/ CycleCompletesNoted
    \/ CycleTimesOutNoted

SpecRelaunch == InitRun /\ [][NextRelaunch]_vars

(***************************************************************************)
(* find_match on arbitrary instance maps                                   *)
(***************************************************************************)
InstancePool == <<"A", "B", "C", "D", "E">>
MatchNames == {InstancePool[i] : i \in 1..MaxInstances}

\* tag lists of a configured instance, and tag_list values of a job
TagLists == {<<"x", "y">>, <<"x", "y", "z">>, <<"z", "x">>}
JobTagLists == {<<"x", "y">>, <<"x", "w">>, <<"x">>, <<>>}

\* any instance map, any job, and the iteration order of the map in each of
\* two evaluations
InitMatch ==
    /\ ReconcileAtRest
    /\ RunAtRest
    /\ SortAtRest
    /\ LaunchAtRest
    /\ LaterAtRest
    /\ \E S \in SUBSET MatchNames : m_instances \in [S -> [tags : TagLists]]
    /\ m_job_tags \in JobTagLists
    /\ m_order_a \in Orders(DOMAIN m_instances)
    /\ m_order_b \in Orders(DOMAIN m_instances)
    /\ m_match_a = "NotEvaluated"
    /\ m_match_b = "NotEvaluated"

\* first evaluation of find_match
MatchFirst ==
    /\ m_match_a = "NotEvaluated"
    /\ m_match_a' = FindMatchIn(m_instances, m_order_a, m_job_tags)
    /\ UNCHANGED <<m_instances, m_job_tags, m_order_a, m_order_b, m_match_b>>
    /\ UNCHANGED <<rvars, lvars, svars, pvars, nvars>>

\* second evaluation of find_match, same map and job
MatchSecond ==
    /\ m_match_a # "NotEvaluated"
    /\ m_match_b = "NotEvaluated"
    /\ m_match_b' = FindMatchIn(m_instances, m_order_b, m_job_tags)
    /\ UNCHANGED <<m_instances, m_job_tags, m_order_a, m_order_b, m_match_a>>
    /\ UNCHANGED <<rvars, lvars, svars, pvars, nvars>>

NextMatch ==
    \/ MatchFirst
    \/ MatchSecond

SpecMatch == InitMatch /\ [][NextMatch]_vars

(***************************************************************************)
(* the group sort of run_impl on arbitrary priorities                      *)
(***************************************************************************)
\* Option<u32>
None == [some |-> FALSE, v |-> 0]
Some(p) == [some |-> TRUE, v |-> p]
Priorities == {None} \cup {Some(p) : p \in 0..MaxPriority}

\* the derived Ord of Option: None is less than every Some
OptionLess(a, b) == (~a.some /\ b.some) \/ (a.some /\ b.some /\ a.v < b.v)

\* slice::sort_by_key: stable, ascending in the key
RECURSIVE SortByKey(_, _)
SortByKey(s, key) ==
    IF s = <<>> THEN <<>>
    ELSE LET front == SortByKey(SubSeq(s, 1, Len(s) - 1), key)
             e == s[Len(s)]
         IN SelectSeq(front, LAMBDA x : ~OptionLess(key[e], key[x]))
                \o <<e>>
                \o SelectSeq(front, LAMBDA x : OptionLess(key[e], key[x]))

\* any priorities of the instances, and the groups in any order of the map
InitSort ==
    /\ ReconcileAtRest
    /\ RunAtRest
    /\ MatchAtRest
    /\ LaunchAtRest
    /\ LaterAtRest
    /\ s_priority \in [MatchNames -> Priorities]
    /\ s_groups \in UNION {Orders(S) : S \in SUBSET MatchNames}
    /\ s_sorted = <<>>

\* run.rs 181-182
SortGroups ==
    /\ s_sorted = <<>>
    /\ s_sorted' = SortByKey(s_groups, s_priority)
    /\ UNCHANGED <<s_priority, s_groups>>
    /\ UNCHANGED <<rvars, lvars, mvars, pvars, nvars>>

NextSort == SortGroups

SpecSort == InitSort /\ [][NextSort]_vars

(***************************************************************************)
(* launch_runner: one process, from spawn to the returned verdict          *)
(***************************************************************************)
\* config.timeout.unwrap_or(u32::MAX) seconds have passed (run.rs 117-118);
\* without a configured timeout the deadline of u32::MAX seconds lies beyond
\* every wait of MaxWait seconds
DeadlineReached(config, elapsed) == config.timeout.some /\ elapsed >= config.timeout.v

\* exit_status.success() (run.rs 142)
ExitStatusSuccessAlways(code) == TRUE
ExitStatusSuccess(code) == code = 0

\* command.kill_on_drop(true) (run.rs 97)
KillOnDropOff == FALSE
KillOnDrop == TRUE

\* the Child is dropped when launch_runner returns or its future is dropped
DropChild(proc) == IF KillOnDrop /\ proc = "running" THEN "killed" ELSE proc

LaunchErr(what) == [ok |-> FALSE, err |-> what]
LaunchOk == [ok |-> TRUE, err |-> "None"]

\* any stdin payload and timeout of the expanded launch configuration
InitLaunch ==
    /\ ReconcileAtRest
    /\ RunAtRest
    /\ MatchAtRest
    /\ SortAtRest
    /\ LaterAtRest
    /\ p_config \in [stdin : {"None", "Some"},
                     timeout : {None} \cup {Some(t) : t \in 0..MaxWait}]
    /\ p_pc = "start"
    /\ p_proc = "none"
    /\ p_code = 0
    /\ p_elapsed = 0
    /\ p_stdin = "unwritten"
    /\ p_status = "none"
    /\ p_stdout = "unread"
    /\ p_stderr = "unread"
    /\ p_ret = "None"

\* command.spawn() succeeds (run.rs 99-101)
Spawn ==
    /\ p_pc = "start"
    /\ p_proc' = "running"
    /\ p_pc' = "writing"
    /\ UNCHANGED <<p_config, p_code, p_elapsed, p_stdin, p_status, p_stdout, p_stderr, p_ret>>
    /\ UNCHANGED <<rvars, lvars, mvars, svars, nvars>>

\* command.spawn() fails: `?` returns the error (run.rs 99-101)
SpawnFails ==
    /\ p_pc = "start"
    /\ p_ret' = LaunchErr("SpawnFailed")
    /\ p_pc' = "returned"
    /\ UNCHANGED <<p_config, p_proc, p_code, p_elapsed, p_stdin, p_status, p_stdout, p_stderr>>
    /\ UNCHANGED <<rvars, lvars, mvars, svars, nvars>>

\* the child process exits on its own, at any time after the spawn
ProcessExits ==
    /\ p_proc = "running"
    /\ \E c \in 0..MaxExitCode : p_code' = c
    /\ p_proc' = "exited"
    /\ UNCHANGED <<p_config, p_pc, p_elapsed, p_stdin, p_status, p_stdout, p_stderr, p_ret>>
    /\ UNCHANGED <<rvars, lvars, mvars, svars, nvars>>

\* stdin.write_all completes (run.rs 111-114)
WriteStdin ==
    /\ p_pc = "writing"
    /\ p_stdin' = "written"
    /\ p_pc' = "waiting"
    /\ UNCHANGED <<p_config, p_proc, p_code, p_elapsed, p_status, p_stdout, p_stderr, p_ret>>
    /\ UNCHANGED <<rvars, lvars, mvars, svars, nvars>>

\* stdin.write_all fails; an empty payload writes nothing and cannot fail
\* (run.rs 110-114); the return drops the child
WriteStdinFails ==
    /\ p_pc = "writing"
    /\ p_config.stdin = "Some"
    /\ p_stdin' = "failed"
    /\ p_ret' = LaunchErr("StdinFailed")
    /\ p_proc' = DropChild(p_proc)
    /\ p_pc' = "returned"
    /\ UNCHANGED <<p_config, p_code, p_elapsed, p_status, p_stdout, p_stderr>>
    /\ UNCHANGED <<rvars, lvars, mvars, svars, nvars>>

\* a second passes while launch_runner waits for the exit status
Tick ==
    /\ p_pc = "waiting"
    /\ p_elapsed < MaxWait
    /\ ~DeadlineReached(p_config, p_elapsed)
    /\ p_elapsed' = p_elapsed + 1
    /\ UNCHANGED <<p_config, p_pc, p_proc, p_code, p_stdin, p_status, p_stdout, p_stderr, p_ret>>
    /\ UNCHANGED <<rvars, lvars, mvars, svars, nvars>>

\* child.status() yields the exit status before the deadline (run.rs 118-124)
StatusReturns ==
    /\ p_pc = "waiting"
    /\ p_proc = "exited"
    /\ p_status' = "got"
    /\ p_pc' = "reading"
    /\ UNCHANGED <<p_config, p_proc, p_code, p_elapsed, p_stdin, p_stdout, p_stderr, p_ret>>
    /\ UNCHANGED <<rvars, lvars, mvars, svars, nvars>>

\* child.status() yields an io error (run.rs 120-124)
StatusFails ==
    /\ p_pc = "waiting"
    /\ p_status' = "failed"
    /\ p_ret' = LaunchErr("StatusFailed")
    /\ p_proc' = DropChild(p_proc)
    /\ p_pc' = "returned"
    /\ UNCHANGED <<p_config, p_code, p_elapsed, p_stdin, p_stdout, p_stderr>>
    /\ UNCHANGED <<rvars, lvars, mvars, svars, nvars>>

\* the deadline passes with the process still running: time::timeout yields
\* Elapsed and `?` returns, dropping the child (run.rs 118-120)
TimeoutElapses ==
    /\ p_pc = "waiting"
    /\ p_proc = "running"
    /\ DeadlineReached(p_config, p_elapsed)
    /\ p_status' = "elapsed"
    /\ p_ret' = LaunchErr("Timeout")
    /\ p_proc' = DropChild(p_proc)
    /\ p_pc' = "returned"
    /\ UNCHANGED <<p_config, p_code, p_elapsed, p_stdin, p_stdout, p_stderr>>
    /\ UNCHANGED <<rvars, lvars, mvars, svars, nvars>>

\* stdout.read_to_end completes or fails (run.rs 130-132)
ReadStdout ==
    /\ p_pc = "reading"
    /\ p_stdout = "unread"
    /\ p_stdout' \in {"read", "failed"}
    /\ UNCHANGED <<p_config, p_pc, p_proc, p_code, p_elapsed, p_stdin, p_status, p_stderr, p_ret>>
    /\ UNCHANGED <<rvars, lvars, mvars, svars, nvars>>

\* stderr.read_to_end completes or fails (run.rs 131-132)
ReadStderr ==
    /\ p_pc = "reading"
    /\ p_stderr = "unread"
    /\ p_stderr' \in {"read", "failed"}
    /\ UNCHANGED <<p_config, p_pc, p_proc, p_code, p_elapsed, p_stdin, p_status, p_stdout, p_ret>>
    /\ UNCHANGED <<rvars, lvars, mvars, svars, nvars>>

\* run.rs 133-152: the verdict once both reads are joined
Verdict ==
    IF p_stdout = "failed" THEN LaunchErr("StdoutFailed")
    ELSE IF p_stderr = "failed" THEN LaunchErr("StderrFailed")
    ELSE IF ExitStatusSuccess(p_code) THEN LaunchOk
    ELSE LaunchErr("NonZeroExit")

\* futures::join! of the two reads completes and launch_runner returns
\* (run.rs 132-152)
ReadsJoined ==
    /\ p_pc = "reading"
    /\ p_stdout # "unread"
    /\ p_stderr # "unread"
    /\ p_ret' = Verdict
    /\ p_proc' = DropChild(p_proc)
    /\ p_pc' = "returned"
    /\ UNCHANGED <<p_config, p_code, p_elapsed, p_stdin, p_status, p_stdout, p_stderr>>
    /\ UNCHANGED <<rvars, lvars, mvars, svars, nvars>>

\* the cycle's deadline passes: the launch_runner future is dropped at its
\* await point, and the child with it (run.rs 267)
Abandoned ==
    /\ p_pc \in {"writing", "waiting", "reading"}
    /\ p_proc' = DropChild(p_proc)
    /\ p_pc' = "dropped"
    /\ UNCHANGED <<p_config, p_code, p_elapsed, p_stdin, p_status, p_stdout, p_stderr, p_ret>>
    /\ UNCHANGED <<rvars, lvars, mvars, svars, nvars>>

NextLaunch ==
    \/ Spawn
    \/ SpawnFails
    \/ ProcessExits
    \/ WriteStdin
    \/ WriteStdinFails
    \/ Tick
    \/ StatusReturns
    \/ StatusFails
    \/ TimeoutElapses
    \/ ReadStdout
    \/ ReadStderr
    \/ ReadsJoined
    \/ Abandoned

SpecLaunch == InitLaunch /\ [][NextLaunch]_vars

(***************************************************************************)
(* launch_runner and a child that writes to its piped stdout and stderr    *)
(***************************************************************************)
Streams == {"stdout", "stderr"}

\* the child cannot go on: it has output left for a pipe that is full
Blocked == \E st \in Streams : o_left[st] > 0 /\ o_pipe[st] = PipeCapacity

\* a child with any finite output, up to more than a pipe holds
InitLaunchPipe ==
    /\ ReconcileAtRest
    /\ RunAtRest
    /\ MatchAtRest
    /\ SortAtRest
    /\ ConfigureAtRest /\ HistoryAtRest /\ ExpandAtRest /\ PrepareAtRest
    /\ p_config \in [stdin : {"None", "Some"},
                     timeout : {None} \cup {Some(t) : t \in 0..MaxWait}]
    /\ p_pc = "start"
    /\ p_proc = "none"
    /\ p_code = 0
    /\ p_elapsed = 0
    /\ p_stdin = "unwritten"
    /\ p_status = "none"
    /\ p_stdout = "unread"
    /\ p_stderr = "unread"
    /\ p_ret = "None"
    /\ o_left \in [Streams -> 0..(PipeCapacity + 1)]
    /\ o_pipe = [st \in Streams |-> 0]

PipeFrame == <<rvars, lvars, mvars, svars, cvars, hvars, xvars, evars>>

\* the child writes one byte to a pipe that has room (Stdio::piped, run.rs 94-95)
ProcessWrites ==
    /\ p_proc = "running"
    /\ \E st \in Streams :
         /\ o_left[st] > 0
         /\ o_pipe[st] < PipeCapacity
         /\ o_left' = [o_left EXCEPT ![st] = @ - 1]
         /\ o_pipe' = [o_pipe EXCEPT ![st] = @ + 1]
    /\ UNCHANGED pvars
    /\ UNCHANGED PipeFrame

\* the child exits once all its output has been accepted
ProcessExitsDrained ==
    /\ p_proc = "running"
    /\ \A st \in Streams : o_left[st] = 0
    /\ \E c \in 0..MaxExitCode : p_code' = c
    /\ p_proc' = "exited"
    /\ UNCHANGED <<p_config, p_pc, p_elapsed, p_stdin, p_status, p_stdout, p_stderr, p_ret>>
    /\ UNCHANGED <<o_left, o_pipe>>
    /\ UNCHANGED PipeFrame

\* stdout.read_to_end empties the pipe, or fails (run.rs 130-132)
ReadStdoutPipe ==
    /\ p_pc = "reading"
    /\ p_stdout = "unread"
    /\ \/ p_stdout' = "read" /\ o_pipe' = [o_pipe EXCEPT !["stdout"] = 0]
       \/ p_stdout' = "failed" /\ UNCHANGED o_pipe
    /\ UNCHANGED <<p_config, p_pc, p_proc, p_code, p_elapsed, p_stdin, p_status, p_stderr, p_ret>>
    /\ UNCHANGED o_left
    /\ UNCHANGED PipeFrame

\* stderr.read_to_end empties the pipe, or fails (run.rs 131-132)
ReadStderrPipe ==
    /\ p_pc = "reading"
    /\ p_stderr = "unread"
    /\ \/ p_stderr' = "read" /\ o_pipe' = [o_pipe EXCEPT !["stderr"] = 0]
       \/ p_stderr' = "failed" /\ UNCHANGED o_pipe
    /\ UNCHANGED <<p_config, p_pc, p_proc, p_code, p_elapsed, p_stdin, p_status, p_stdout, p_ret>>
    /\ UNCHANGED o_left
    /\ UNCHANGED PipeFrame

NextLaunchPipe ==
    \/ Spawn
    \/ SpawnFails
    \/ ProcessWrites
    \/ ProcessExitsDrained
    \/ WriteStdin
    \/ WriteStdinFails
    \/ Tick
    \/ StatusReturns
    \/ StatusFails
    \/ TimeoutElapses
    \/ ReadStdoutPipe
    \/ ReadStderrPipe
    \/ ReadsJoined
    \/ Abandoned

SpecLaunchPipe == InitLaunchPipe /\ [][NextLaunchPipe]_vars

(***************************************************************************)
(* template expansion: the variable lookup of string_expand_impl           *)
(***************************************************************************)
BuiltinVars == {"NAME", "THIS", "CONFIG", "NUM_JOBS"}
CustomVarPool == <<"FOO", "BAR", "BAZ">>
CustomVars == {CustomVarPool[i] : i \in 1..NumCustomVars}
VarNames == BuiltinVars \cup CustomVars

\* the callers of string_expand_impl (template.rs 63, 119, 179)
Contexts == {"runner", "executor", "launch"}

\* the additional_vars closure: None for the runner and executor templates
\* (template.rs 68, 127), CONFIG and NUM_JOBS for the launch template (197-201)
AdditionalVars(context, v) == context = "launch" /\ v \in {"CONFIG", "NUM_JOBS"}

\* the lookup closure of string_expand_impl (template.rs 37-57)
StringExpandImplEnvFirst(context, v, variables, env) ==
    IF v = "NAME" THEN Found("instance_name")
    ELSE IF v = "THIS" THEN Found("current_exe")
    ELSE IF AdditionalVars(context, v) THEN Found("additional_vars")
    ELSE IF v \in env THEN Found("env_vars")
    ELSE IF v \in variables THEN Found("config_variables")
    ELSE Undefined
StringExpandImpl(context, v, variables, env) ==
    IF v = "NAME" THEN Found("instance_name")
    ELSE IF v = "THIS" THEN Found("current_exe")
    ELSE IF AdditionalVars(context, v) THEN Found("additional_vars")
    ELSE IF v \in variables THEN Found("config_variables")
    ELSE IF v \in env THEN Found("env_vars")
    ELSE Undefined

ExpandFrame == <<rvars, lvars, mvars, svars, pvars, cvars, hvars, ovars, evars>>

\* any variable name looked up for any caller, with any names defined by the
\* instance and by the environment
InitExpand ==
    /\ ReconcileAtRest
    /\ RunAtRest
    /\ MatchAtRest /\ SortAtRest /\ LaunchAtRest
    /\ ConfigureAtRest /\ HistoryAtRest /\ PipesAtRest /\ PrepareAtRest
    /\ x_context \in Contexts
    /\ x_var \in VarNames
    /\ x_variables \in SUBSET VarNames
    /\ x_env \in SUBSET VarNames
    /\ x_result = NotExpanded
    /\ x_config = NoConfig
    /\ x_pc = "idle"
    /\ x_state = NoConfig
    /\ x_unwraps = "NotEvaluated"

\* shellexpand calls the lookup for the variable (template.rs 34-58)
Expand ==
    /\ x_pc = "idle"
    /\ x_result = NotExpanded
    /\ x_result' = StringExpandImpl(x_context, x_var, x_variables, x_env)
    /\ UNCHANGED <<x_context, x_var, x_variables, x_env, x_config, x_pc, x_state, x_unwraps>>
    /\ UNCHANGED ExpandFrame

NextExpand == Expand

SpecExpand == InitExpand /\ [][NextExpand]_vars

(***************************************************************************)
(* run: check_config::check, initialize, and the unwraps of run_impl       *)
(***************************************************************************)
\* expand_runner_config_template returns Ok for instance n (template.rs 63-117)
RunnerTemplateExpands(config, n, env) ==
    StringExpandImpl("runner", config.runner.ref, config.runners[n], env).ok

\* expand_executor_config_template returns Ok for instance n (template.rs 119-177)
ExecutorTemplateExpands(config, n, env) ==
    /\ config.executor.present
    /\ StringExpandImpl("executor", config.executor.ref, config.runners[n], env).ok

\* expand_launch_config_template returns Ok for instance n (template.rs 179-218)
LaunchTemplateExpands(config, n, env) ==
    /\ config.launch.present
    /\ StringExpandImpl("launch", config.launch.ref, config.runners[n], env).ok

\* check_config::check returns Ok (check_config.rs 14-35)
Check(config, env) ==
    \A n \in DOMAIN config.runners :
        /\ RunnerTemplateExpands(config, n, env)
        /\ ExecutorTemplateExpands(config, n, env)
        /\ LaunchTemplateExpands(config, n, env)

\* the config files read_config accepts: a [runner] template, optional
\* [executor] and [launch] templates, and any instances with their variables
ConfigFiles ==
    UNION {[runner : {Section(v) : v \in VarNames},
            executor : {NoSection} \cup {Section(v) : v \in VarNames},
            launch : {NoSection} \cup {Section(v) : v \in VarNames},
            runners : [R -> SUBSET CustomVars]] : R \in SUBSET Names}

\* run() is called (run.rs 246)
InitCheck ==
    /\ ReconcileAtRest
    /\ RunAtRest
    /\ MatchAtRest /\ SortAtRest /\ LaunchAtRest
    /\ ConfigureAtRest /\ HistoryAtRest /\ PipesAtRest /\ PrepareAtRest
    /\ x_context = "runner"
    /\ x_var = "NAME"
    /\ x_variables = {}
    /\ x_env \in SUBSET CustomVars
    /\ x_result = NotExpanded
    /\ x_config \in ConfigFiles
    /\ x_pc = "start"
    /\ x_state = NoConfig
    /\ x_unwraps = "NotEvaluated"

\* check_config::check(&paths)? (run.rs 247, 293)
CheckReturns ==
    /\ x_pc = "start"
    /\ x_pc' = IF Check(x_config, x_env) THEN "checked" ELSE "returned"
    /\ UNCHANGED <<x_context, x_var, x_variables, x_env, x_result, x_config, x_state,
                   x_unwraps>>
    /\ UNCHANGED ExpandFrame

\* initialize reads the config file again and connects (run.rs 37-52, 248)
Initialize ==
    /\ x_pc = "checked"
    /\ x_state' = x_config
    /\ x_pc' = "polling"
    /\ UNCHANGED <<x_context, x_var, x_variables, x_env, x_result, x_config, x_unwraps>>
    /\ UNCHANGED ExpandFrame

\* init_client or fetch_project fails in initialize (run.rs 42-45)
InitializeFails ==
    /\ x_pc = "checked"
    /\ x_pc' = "returned"
    /\ UNCHANGED <<x_context, x_var, x_variables, x_env, x_result, x_config, x_state,
                   x_unwraps>>
    /\ UNCHANGED ExpandFrame

\* a cycle whose fetch succeeded gets to the unwraps (run.rs 172-196): the one
\* of the launch section, then one per instance that has matched jobs
RunImplUnwraps ==
    /\ x_pc = "polling"
    /\ x_unwraps # "Panic"
    /\ \E matched \in SUBSET DOMAIN x_state.runners :
         x_unwraps' =
             IF ~x_state.launch.present THEN "Panic"
             ELSE IF \E n \in matched : ~LaunchTemplateExpands(x_state, n, x_env)
                  THEN "Panic"
                  ELSE "Ok"
    /\ UNCHANGED <<x_context, x_var, x_variables, x_env, x_result, x_config, x_pc, x_state>>
    /\ UNCHANGED ExpandFrame

NextCheck ==
    \/ CheckReturns
    \/ Initialize
    \/ InitializeFails
    \/ RunImplUnwraps

SpecCheck == InitCheck /\ [][NextCheck]_vars

(***************************************************************************)
(* the custom executor's prepare_step, run for several jobs at once        *)
(***************************************************************************)
PrepareJobs == 1..NumPrepareJobs

\* GitLabExecutorPullPolicy (config.rs 128-139)
PullPolicies == {"always", "if-not-present", "never"}

\* pull_needed (executor.rs 141-152); the Err of `never` is raised apart
PullNeededIfMissing(policy, image_exists) == ~image_exists
PullNeeded(policy, image_exists) ==
    CASE policy = "always" -> TRUE
      [] policy = "never" -> FALSE
      [] policy = "if-not-present" -> ~image_exists

\* tmp_filepath: the image file name with the extension "<job_id>.tmp"
\* (executor.rs 160-162)
TmpFilepathShared(job_id) == 0
TmpFilepath(job_id) == job_id

TmpFilepaths == 0..NumPrepareJobs

\* Err(anyhow!(msg)) returned by prepare_step
PrepareErr(msg) == msg

PrepareFrame == <<rvars, lvars, mvars, svars, pvars, cvars, hvars, ovars, xvars>>

\* prepare_step is called for every job, with the image file missing or left
\* by an earlier invocation (executor.rs 102-112)
InitPrepare ==
    /\ ReconcileAtRest
    /\ RunAtRest
    /\ MatchAtRest /\ SortAtRest /\ LaunchAtRest
    /\ ConfigureAtRest /\ HistoryAtRest /\ PipesAtRest /\ ExpandAtRest
    /\ e_policy \in PullPolicies
    /\ e_image \in {NoImage, Image(0, TRUE)}
    /\ e_tmp = [f \in TmpFilepaths |-> "absent"]
    /\ e_pc = [j \in PrepareJobs |-> "start"]
    /\ e_exists = [j \in PrepareJobs |-> "unknown"]
    /\ e_pulled = [j \in PrepareJobs |-> FALSE]
    /\ e_ret = [j \in PrepareJobs |-> "None"]

\* the create_dir_all calls succeed (executor.rs 114-137)
CreateDirs(j) ==
    /\ e_pc[j] = "start"
    /\ e_pc' = [e_pc EXCEPT ![j] = "checking"]
    /\ UNCHANGED <<e_policy, e_image, e_tmp, e_exists, e_pulled, e_ret>>
    /\ UNCHANGED PrepareFrame

\* one of the create_dir_all calls fails and `?` returns (executor.rs 119-137)
CreateDirsFails(j) ==
    /\ e_pc[j] = "start"
    /\ e_pc' = [e_pc EXCEPT ![j] = "returned"]
    /\ e_ret' = [e_ret EXCEPT ![j] = PrepareErr("Failed creating directory")]
    /\ UNCHANGED <<e_policy, e_image, e_tmp, e_exists, e_pulled>>
    /\ UNCHANGED PrepareFrame

\* std::fs::exists returns Ok(image_exists) and the policy is applied
\* (executor.rs 139-156)
ExistsReturns(j) ==
    /\ e_pc[j] = "checking"
    /\ LET image_exists == e_image.present
           refused == e_policy = "never" /\ ~image_exists
           pull_needed == PullNeeded(e_policy, image_exists)
       IN  /\ e_exists' = [e_exists EXCEPT ![j] = IF image_exists THEN "yes" ELSE "no"]
           /\ e_pc' = [e_pc EXCEPT ![j] =
                          IF refused \/ ~pull_needed THEN "returned" ELSE "spawning"]
           /\ e_ret' = [e_ret EXCEPT ![j] =
                           IF refused THEN PrepareErr("Pull policy is 'never', but image file doesn't exist!")
                           ELSE IF ~pull_needed THEN "Ok" ELSE "None"]
    /\ UNCHANGED <<e_policy, e_image, e_tmp, e_pulled>>
    /\ UNCHANGED PrepareFrame

\* std::fs::exists returns Err and `?` returns (executor.rs 139-140)
ExistsFails(j) ==
    /\ e_pc[j] = "checking"
    /\ e_pc' = [e_pc EXCEPT ![j] = "returned"]
    /\ e_ret' = [e_ret EXCEPT ![j] = PrepareErr("Failed checking for existence of image file")]
    /\ UNCHANGED <<e_policy, e_image, e_tmp, e_exists, e_pulled>>
    /\ UNCHANGED PrepareFrame

\* pull_command.spawn() succeeds (executor.rs 158-196)
SpawnPull(j) ==
    /\ e_pc[j] = "spawning"
    /\ e_pulled' = [e_pulled EXCEPT ![j] = TRUE]
    /\ e_pc' = [e_pc EXCEPT ![j] = "pulling"]
    /\ UNCHANGED <<e_policy, e_image, e_tmp, e_exists, e_ret>>
    /\ UNCHANGED PrepareFrame

\* pull_command.spawn() fails and `?` returns (executor.rs 194-196)
SpawnPullFails(j) ==
    /\ e_pc[j] = "spawning"
    /\ e_pulled' = [e_pulled EXCEPT ![j] = TRUE]
    /\ e_pc' = [e_pc EXCEPT ![j] = "returned"]
    /\ e_ret' = [e_ret EXCEPT ![j] = PrepareErr("Failed creating pull process")]
    /\ UNCHANGED <<e_policy, e_image, e_tmp, e_exists>>
    /\ UNCHANGED PrepareFrame

\* the pull process writes part of the image to the file it was given
\* (executor.rs 172-174)
PullWrites(j) ==
    /\ e_pc[j] = "pulling"
    /\ e_tmp[TmpFilepath(j)] # "partial"
    /\ e_tmp' = [e_tmp EXCEPT ![TmpFilepath(j)] = "partial"]
    /\ UNCHANGED <<e_policy, e_image, e_pc, e_exists, e_pulled, e_ret>>
    /\ UNCHANGED PrepareFrame

\* the pull process completes its file and exits with success
\* (executor.rs 197-201)
PullSucceeds(j) ==
    /\ e_pc[j] = "pulling"
    /\ e_tmp' = [e_tmp EXCEPT ![TmpFilepath(j)] = "complete"]
    /\ e_pc' = [e_pc EXCEPT ![j] = "renaming"]
    /\ UNCHANGED <<e_policy, e_image, e_exists, e_pulled, e_ret>>
    /\ UNCHANGED PrepareFrame

\* the pull process exits without success, or its status cannot be awaited
\* (executor.rs 197-200, 207-209)
PullFails(j) ==
    /\ e_pc[j] = "pulling"
    /\ e_pc' = [e_pc EXCEPT ![j] = "returned"]
    /\ e_ret' = [e_ret EXCEPT ![j] = PrepareErr("Subprocess failed")]
    /\ UNCHANGED <<e_policy, e_image, e_tmp, e_exists, e_pulled>>
    /\ UNCHANGED PrepareFrame

\* fs::rename moves the temporary file to filepath (executor.rs 201-206)
Rename(j) ==
    /\ e_pc[j] = "renaming"
    /\ e_tmp[TmpFilepath(j)] # "absent"
    /\ e_image' = Image(j, e_tmp[TmpFilepath(j)] = "complete")
    /\ e_tmp' = [e_tmp EXCEPT ![TmpFilepath(j)] = "absent"]
    /\ e_pc' = [e_pc EXCEPT ![j] = "returned"]
    /\ e_ret' = [e_ret EXCEPT ![j] = "Ok"]
    /\ UNCHANGED <<e_policy, e_exists, e_pulled>>
    /\ UNCHANGED PrepareFrame

\* fs::rename fails and `?` returns (executor.rs 204-205)
RenameFails(j) ==
    /\ e_pc[j] = "renaming"
    /\ e_pc' = [e_pc EXCEPT ![j] = "returned"]
    /\ e_ret' = [e_ret EXCEPT ![j] = PrepareErr("Renaming failed")]
    /\ UNCHANGED <<e_policy, e_image, e_tmp, e_exists, e_pulled>>
    /\ UNCHANGED PrepareFrame

NextPrepare ==
    \/ \E j \in PrepareJobs : CreateDirs(j)
    \/ \E j \in PrepareJobs : CreateDirsFails(j)
    \/ \E j \in PrepareJobs : ExistsReturns(j)
    \/ \E j \in PrepareJobs : ExistsFails(j)
    \/ \E j \in PrepareJobs : SpawnPull(j)
    \/ \E j \in PrepareJobs : SpawnPullFails(j)
    \/ \E j \in PrepareJobs : PullWrites(j)
    \/ \E j \in PrepareJobs : PullSucceeds(j)
    \/ \E j \in PrepareJobs : PullFails(j)
    \/ \E j \in PrepareJobs : Rename(j)
    \/ \E j \in PrepareJobs : RenameFails(j)

SpecPrepare == InitPrepare /\ [][NextPrepare]_vars

(***************************************************************************)
(* run_single: one run_impl, no loop                                       *)
(***************************************************************************)
\* state after initialize(), run_impl awaiting the fetch (run.rs 292-295)
InitRunSingle ==
    /\ ReconcileAtRest
    /\ PureAtRest
    /\ successful_job_ids = {}
    /\ lpc = "fetching"
    /\ mpc = "single"
    /\ cancelled = FALSE
    /\ tick_ready = FALSE
    /\ iter_order \in Orders(InstanceNames)
    /\ group_size \in 1..MaxGroupSize
    /\ pending_jobs = <<>>
    /\ grouped_matched_jobs = <<>>
    /\ launch_results = <<>>
    /\ poll_result = "None"
    /\ failed_job_ids = {}

\* the fetch fails: run_impl returns Err and `?` returns it (run.rs 76, 172, 295)
SingleFetchFails ==
    /\ mpc = "single"
    /\ lpc = "fetching"
    /\ poll_result' = "Err"
    /\ lpc' = "exited"
    /\ mpc' = "returned"
    /\ UNCHANGED <<successful_job_ids, cancelled, tick_ready, iter_order, group_size,
                   pending_jobs, grouped_matched_jobs, launch_results>>
    /\ UNCHANGED <<failed_job_ids, rvars, fvars>>

\* all launches joined: run_impl returns Ok(successful), which run_single
\* discards before returning Ok(()) (run.rs 211-242, 295-296)
SingleCompletes ==
    /\ mpc = "single"
    /\ lpc = "launching"
    /\ LaunchesDone
    /\ poll_result' = "Ok"
    /\ lpc' = "exited"
    /\ mpc' = "returned"
    /\ UNCHANGED <<successful_job_ids, cancelled, tick_ready, iter_order, group_size,
                   pending_jobs, grouped_matched_jobs, launch_results>>
    /\ UNCHANGED <<failed_job_ids, rvars, fvars>>

NextRunSingle ==
    \/ SingleFetchFails
    \/ FetchReturns
    \/ LaunchReturns
    \/ SingleCompletes

SpecRunSingle == InitRunSingle /\ [][NextRunSingle]_vars

(***************************************************************************)
(* Properties                                                              *)
(***************************************************************************)
\* classification of a call's result, independent of is_error_not_found
Succeeded(r) == r.ok
NotFound(r) == ~r.ok /\ r.status = NOT_FOUND
OtherError(r) == ~r.ok /\ r.kind # "InFlight" /\ r.status # NOT_FOUND

\* update_registrations returned after issuing its API calls
CallsReturned == rpc = "returned" /\ ret # RetErr(IoError("init"))
\* ... and write_tokens succeeded
Persisted == CallsReturned /\ writes = 1

HasError(op, key) == \E i \in DOMAIN errors : errors[i].op = op /\ errors[i].key = key

\* C1: a name whose delete call failed with an error other than NotFound is
\* still in the result map and in the persisted store with its old
\* registration, and the error is recorded.
C1_FailedDeleteRetained ==
    Persisted =>
        \A i \in DOMAIN to_delete :
            OtherError(delete_results[i]) =>
                /\ to_delete[i] \in DOMAIN new_tokens
                /\ new_tokens[to_delete[i]] = tokens[to_delete[i]]
                /\ to_delete[i] \in DOMAIN store
                /\ store[to_delete[i]] = tokens[to_delete[i]]
                /\ HasError("delete", to_delete[i])

\* C2: the successful set never loses an element, and no batch launched in
\* a cycle holds a job that was in the set when the cycle started.
C2_DedupAndMonotone ==
    /\ [](lpc = "launching" =>
            \A b \in Batches : BatchJobs(b[1], b[2]) \cap successful_job_ids = {})
    /\ [][successful_job_ids \subseteq successful_job_ids']_vars

C2_Witness ==
    /\ lpc = "launching"
    /\ Batches # {}
    /\ \E i \in DOMAIN pending_jobs : pending_jobs[i] \in successful_job_ids

\* C3: the persisted map holds every successfully updated name with its old
\* registration, every successfully created name with the returned
\* registration, and no name whose delete succeeded or was NotFound,
\* whatever happened to the other items.
C3_PersistedProgress ==
    Persisted =>
        /\ \A i \in DOMAIN to_update :
             Succeeded(update_results[i]) =>
                 /\ to_update[i] \in DOMAIN store
                 /\ store[to_update[i]] = tokens[to_update[i]]
        /\ \A i \in DOMAIN to_add :
             Succeeded(add_results[i]) =>
                 /\ to_add[i] \in DOMAIN store
                 /\ store[to_add[i]] = Registration(add_results[i].reg)
        /\ \A i \in DOMAIN to_delete :
             (Succeeded(delete_results[i]) \/ NotFound(delete_results[i])) =>
                 to_delete[i] \notin DOMAIN store

C3_Witness ==
    /\ Persisted
    /\ errors # <<>>
    /\ \E i \in DOMAIN to_add : Succeeded(add_results[i])
    /\ \E i \in DOMAIN to_add : ~Succeeded(add_results[i])

\* C4: when a cycle completes, every batch has either all of its job ids in
\* the successful set (its own launch returned Ok) or none (its own launch
\* failed).
C4_BatchAtomic ==
    (lpc = "select" /\ poll_result = "Ok") =>
        \A b \in Batches :
            /\ launch_results[b[1]][b[2]] = "Ok" =>
                   BatchJobs(b[1], b[2]) \subseteq successful_job_ids
            /\ launch_results[b[1]][b[2]] = "Err" =>
                   BatchJobs(b[1], b[2]) \cap successful_job_ids = {}

C4_Witness ==
    /\ lpc = "select"
    /\ poll_result = "Ok"
    /\ \E b1, b2 \in Batches :
         /\ b1[1] = b2[1]
         /\ launch_results[b1[1]][b1[2]] = "Ok"
         /\ launch_results[b2[1]][b2[2]] = "Err"
         /\ Cardinality(BatchJobs(b1[1], b1[2])) > 1

InCycle == lpc \in {"fetching", "launching"}

\* C5: the poll task exits only from its wait point and only once
\* cancellation was requested; a request arriving during a cycle leaves the
\* cycle as it is, and a cycle ends only by returning or by its deadline.
C5_CancelOnlyAtWait ==
    [][/\ (lpc' = "exited" /\ lpc # "exited") => (lpc = "select" /\ cancelled)
       /\ (InCycle /\ cancelled' # cancelled) =>
              (lpc' = lpc /\ launch_results' = launch_results
                 /\ successful_job_ids' = successful_job_ids)
       /\ (InCycle /\ lpc' \notin {"fetching", "launching"}) =>
              (lpc' = "select" /\ poll_result' \in {"Ok", "Err", "Elapsed"})]_vars

C5_Witness ==
    /\ cancelled
    /\ lpc = "launching"
    /\ \E b \in Batches : launch_results[b[1]][b[2]] = "Running"
    /\ \E b \in Batches : launch_results[b[1]][b[2]] = "Ok"

\* C6: a cycle that exceeds the deadline adds nothing to the successful set
\* and the loop goes back to its wait point.
C6_TimeoutNoUpdate ==
    [][(InCycle /\ poll_result' = "Elapsed") =>
           (successful_job_ids' = successful_job_ids /\ lpc' = "select")]_vars

C6_Witness ==
    /\ lpc = "select"
    /\ poll_result = "Elapsed"
    /\ \E b \in Batches :
         /\ launch_results[b[1]][b[2]] = "Ok"
         /\ BatchJobs(b[1], b[2]) \cap successful_job_ids = {}

\* C7: a name whose update returned NotFound is not copied from the old
\* registration; it gets a create call in the same pass and is in the
\* result iff that create succeeded, then with the new registration.
C7_UpdateNotFoundRecreated ==
    \A i \in DOMAIN to_update :
        NotFound(update_results[i]) =>
            /\ rpc \in {"adding", "deleting"} =>
                   (to_update[i] \in Range(to_add) /\ to_update[i] \notin DOMAIN new_tokens)
            /\ rpc = "returned" =>
                   \E j \in DOMAIN to_add :
                       /\ to_add[j] = to_update[i]
                       /\ to_add[j] \in DOMAIN new_tokens <=> Succeeded(add_results[j])
                       /\ Succeeded(add_results[j]) =>
                              new_tokens[to_add[j]] = Registration(add_results[j].reg)

C7_Witness ==
    /\ rpc = "returned"
    /\ \E i \in DOMAIN to_update :
         /\ NotFound(update_results[i])
         /\ to_update[i] \in DOMAIN new_tokens
         /\ new_tokens[to_update[i]] # tokens[to_update[i]]

\* C8: a name whose update failed with an error other than NotFound keeps
\* its old registration in the result and the persisted store, has the
\* error recorded, and gets neither a create nor a delete call.
C8_UpdateErrorKept ==
    \A i \in DOMAIN to_update :
        (OtherError(update_results[i]) /\ rpc \in {"adding", "deleting", "returned"}) =>
            /\ to_update[i] \in DOMAIN new_tokens
            /\ new_tokens[to_update[i]] = tokens[to_update[i]]
            /\ HasError("update", to_update[i])
            /\ to_update[i] \notin Range(to_add)
            /\ to_update[i] \notin Range(to_delete)
            /\ Persisted => (/\ to_update[i] \in DOMAIN store
                             /\ store[to_update[i]] = tokens[to_update[i]])

C8_Witness ==
    /\ Persisted
    /\ \E i \in DOMAIN to_update : OtherError(update_results[i])

C10_ResultKeysBound ==
    rpc = "returned" =>
        DOMAIN new_tokens \subseteq
            runners \cup {to_delete[i] : i \in {j \in DOMAIN to_delete :
                                                   ~Succeeded(delete_results[j])}}

C10_Witness ==
    /\ CallsReturned
    /\ DOMAIN new_tokens # {}
    /\ \E i \in DOMAIN to_delete : OtherError(delete_results[i])

\* no update call of this pass has been answered NotFound
NoUpdateNotFound == \A i \in DOMAIN update_results : ~NotFound(update_results[i])

AfterUpdates == rpc \in {"adding", "deleting", "returned"}

\* C11 as stated: a reconcile that starts from the map persisted by the
\* previous reconcile of the same desired set, and sees no NotFound, issues
\* no create and no delete call.
C11_SecondPassUpdateOnly ==
    (prev_pass.persisted /\ AfterUpdates /\ NoUpdateNotFound) =>
        (to_add = <<>> /\ to_delete = <<>>)

\* C11 amended: the same, provided every create call of the previous
\* reconcile succeeded.
C11_SecondPassUpdateOnlyAfterCreates ==
    (prev_pass.persisted /\ ~prev_pass.add_failed /\ AfterUpdates /\ NoUpdateNotFound) =>
        (to_add = <<>> /\ to_delete = <<>>)

C11_Witness ==
    /\ prev_pass.persisted
    /\ ~prev_pass.add_failed
    /\ prev_pass.changed
    /\ Persisted
    /\ NoUpdateNotFound
    /\ to_update # <<>>
    /\ to_add = <<>>
    /\ to_delete = <<>>

\* C12: a delete call answered NotFound leaves the name out of the result
\* and records no error for it; with current {X}, desired {Y}, delete(X)
\* NotFound and create(Y) succeeding, the result is exactly {Y} and
\* reconcile reports success.
C12_DeleteNotFoundIsSuccess ==
    CallsReturned =>
        /\ \A i \in DOMAIN to_delete :
             NotFound(delete_results[i]) =>
                 /\ to_delete[i] \notin DOMAIN new_tokens
                 /\ ~HasError("delete", to_delete[i])
        /\ \A x, y \in Names :
             (/\ x # y
              /\ DOMAIN tokens = {x}
              /\ runners = {y}
              /\ writes = 1
              /\ NotFound(delete_results[1])
              /\ Succeeded(add_results[1])) =>
                 /\ to_delete = <<x>>
                 /\ to_add = <<y>>
                 /\ to_update = <<>>
                 /\ new_tokens = [k \in {y} |-> Registration(add_results[1].reg)]
                 /\ store = new_tokens
                 /\ errors = <<>>
                 /\ ret = RetOk

C12_Witness ==
    /\ rpc = "returned"
    /\ ret = RetOk
    /\ Len(to_delete) = 1
    /\ Len(to_add) = 1
    /\ NotFound(delete_results[1])
    /\ DOMAIN new_tokens = {to_add[1]}

\* C13: no create or delete call exists while an update call is still in
\* flight, and once the names to create are computed neither they nor the
\* update results change.
C13_PhaseBarrier ==
    /\ []((rpc \in {"adding", "deleting"} \/ add_results # <<>> \/ delete_results # <<>>) =>
            \A i \in DOMAIN update_results : update_results[i] # InFlight)
    /\ [][(rpc \in {"adding", "deleting"}) =>
            (update_results' = update_results /\ to_add' = to_add)]_vars

C13_Witness ==
    /\ rpc = "adding"
    /\ Len(to_update) > 1
    /\ \E i \in DOMAIN add_results : add_results[i] = InFlight
    /\ \E i \in DOMAIN update_results : NotFound(update_results[i])
    /\ \E i \in DOMAIN update_results : OtherError(update_results[i])

\* C14 as stated: the delete calls are started together with the create
\* calls, without waiting for any create to complete.
C14_DeletesStartWithCreates ==
    (rpc = "adding" /\ \E i \in DOMAIN add_results : add_results[i] = InFlight) =>
        Len(delete_results) = Len(to_delete)

\* C14 amended: all create calls are in flight together, and a delete call
\* is started only after every create call has completed, so a create and
\* a delete are never in flight at the same time.
C14_DeletesAfterCreates ==
    /\ [](delete_results # <<>> =>
            \A i \in DOMAIN add_results : add_results[i] # InFlight)
    /\ [][(rpc = "updating" /\ rpc' = "adding") => add_results' = Issue(to_add')]_vars
    /\ [][(rpc = "adding" /\ rpc' = "deleting") => delete_results' = Issue(to_delete)]_vars

C14_Witness ==
    /\ rpc = "deleting"
    /\ add_results # <<>>
    /\ \E i \in DOMAIN delete_results : delete_results[i] = InFlight

NoDup(s) == \A i, j \in DOMAIN s : s[i] = s[j] => i = j

\* a result that has arrived stays what it is
Settled(old, new) ==
    \A i \in DOMAIN old : old[i] # InFlight => (i \in DOMAIN new /\ new[i] = old[i])

\* C15: in one pass each name gets at most one call of each kind, never
\* both a create and a delete; updates go to desired /\ current, deletes to
\* current \ desired, creates to desired \ current plus the names whose
\* update was NotFound; an answered call is not issued again.
C15_CallsOncePerName ==
    /\ []((rpc \in {"updating", "adding", "deleting"} \/ CallsReturned) =>
            /\ NoDup(to_update)
            /\ Range(to_update) = runners \cap DOMAIN tokens
            /\ Len(update_results) = Len(to_update))
    /\ []((rpc \in {"adding", "deleting"} \/ CallsReturned) =>
            /\ NoDup(to_add)
            /\ NoDup(to_delete)
            /\ Range(to_add) \cap Range(to_delete) = {}
            /\ Range(to_delete) = DOMAIN tokens \ runners
            /\ Range(to_add) = (runners \ DOMAIN tokens)
                   \cup {to_update[i] : i \in {j \in DOMAIN to_update :
                                                  NotFound(update_results[j])}}
            /\ Len(add_results) = Len(to_add)
            /\ delete_results # <<>> => Len(delete_results) = Len(to_delete))
    /\ [][(passes' = passes) =>
            /\ Settled(update_results, update_results')
            /\ Settled(add_results, add_results')
            /\ Settled(delete_results, delete_results')]_vars

C15_Witness ==
    /\ CallsReturned
    /\ \E i \in DOMAIN to_update : NotFound(update_results[i])
    /\ \E i \in DOMAIN to_add : ~Succeeded(add_results[i])
    /\ to_delete # <<>>

\* the instances whose tag set contains the job's tag set
EligibleSet == {n \in DOMAIN m_instances : Range(m_job_tags) \subseteq Range(m_instances[n].tags)}
TagCount(n) == Cardinality(Range(m_instances[n].tags))
\* the eligible instances of minimal tag count
Tightest == {n \in EligibleSet : \A k \in EligibleSet : TagCount(n) <= TagCount(k)}
ExampleInstances ==
    [n \in {"A", "B"} |-> [tags |-> IF n = "A" THEN <<"x", "y">> ELSE <<"x", "y", "z">>]]

BothEvaluated == m_match_a # "NotEvaluated" /\ m_match_b # "NotEvaluated"

\* C17 as stated: two evaluations of the matcher on the same instance map
\* and job return the same name, ties on tag count included.
C17_MatchDeterministic == BothEvaluated => m_match_a = m_match_b

\* C17 amended: two evaluations return the same name when the map is
\* iterated in the same order both times or at most one eligible instance
\* has the minimal tag count; otherwise both return some eligible instance
\* of minimal tag count, or both return None.
C17_MatchDeterministicUpToTies ==
    BothEvaluated =>
        /\ (m_order_a = m_order_b \/ Cardinality(Tightest) <= 1) => m_match_a = m_match_b
        /\ m_match_a = "None" <=> m_match_b = "None"
        /\ m_match_a # "None" => {m_match_a, m_match_b} \subseteq Tightest

C17_Witness ==
    /\ BothEvaluated
    /\ Cardinality(Tightest) > 1
    /\ m_order_a = m_order_b
    /\ m_match_a = m_match_b
    /\ m_match_a \in Tightest

RECURSIVE Concat(_, _)
\* the chunks 1..c of a group's jobs, one after the other
Concat(jobs, c) == IF c = 0 THEN <<>> ELSE Concat(jobs, c - 1) \o Chunk(jobs, c, group_size)

\* C18: a group with n matched jobs is launched as k processes where
\* (k-1)*g < n <= k*g; the batches are contiguous slices that concatenate to
\* the group's jobs in fetch order, all but the last of size g, the last of
\* size 1..g; 5 jobs in chunks of 2 have sizes 2, 2, 1.
C18_BatchesAreChunks ==
    lpc = "launching" =>
        /\ [c \in 1..NumChunks(5, 2) |-> Len(Chunk(<<1, 2, 3, 4, 5>>, c, 2))] = <<2, 2, 1>>
        /\ \A g \in DOMAIN grouped_matched_jobs :
            LET jobs == grouped_matched_jobs[g].jobs
                n == Len(jobs)
                k == Len(launch_results[g])
            IN /\ n >= 1
               /\ (k - 1) * group_size < n
               /\ n <= k * group_size
               /\ Concat(jobs, k) = jobs
               /\ jobs = SelectSeq(pending_jobs, LAMBDA id : id \in Range(jobs))
               /\ \A c \in 1..k :
                    /\ c < k => Len(Chunk(jobs, c, group_size)) = group_size
                    /\ Len(Chunk(jobs, c, group_size)) \in 1..group_size
                    /\ \A d \in 1..k : c # d => BatchJobs(g, c) \cap BatchJobs(g, d) = {}

C18_Witness ==
    /\ lpc = "launching"
    /\ group_size = 2
    /\ \E g \in DOMAIN grouped_matched_jobs :
         /\ Len(grouped_matched_jobs[g].jobs) = 3
         /\ Len(launch_results[g]) = 2
         /\ Cardinality(BatchJobs(g, 1)) = 2
         /\ Cardinality(BatchJobs(g, 2)) = 1

Position(s, e) == CHOOSE i \in DOMAIN s : s[i] = e

\* C19: the sorted groups are in descending priority, groups without a
\* priority last, groups of equal priority in their original relative order.
C19_PriorityDescending ==
    \A i, j \in DOMAIN s_sorted :
        i < j =>
            LET a == s_priority[s_sorted[i]]
                b == s_priority[s_sorted[j]]
            IN /\ ~a.some => ~b.some
               /\ (a.some /\ b.some) => a.v >= b.v
               /\ a = b => Position(s_groups, s_sorted[i]) < Position(s_groups, s_sorted[j])

\* C20: every launched batch's configuration has NAME = the batch's worker
\* name, CONFIG = the generated config path and NUM_JOBS = the number of
\* jobs in that batch.
C20_NumJobsIsBatchSize ==
    lpc = "launching" =>
        \A b \in Batches :
            /\ BatchLaunchConfig(b[1], b[2]).NAME = grouped_matched_jobs[b[1]].name
            /\ BatchLaunchConfig(b[1], b[2]).CONFIG = GeneratedConfigFilePath
            /\ BatchLaunchConfig(b[1], b[2]).NUM_JOBS = Cardinality(BatchJobs(b[1], b[2]))

Started(b) == launch_results[b[1]][b[2]] \in {"Running", "Ok", "Err"}
Running(b) == launch_results[b[1]][b[2]] = "Running"
Launching == lpc = "launching"
\* the jobs of all batches of the cycle
BatchedJobs == UNION {BatchJobs(b[1], b[2]) : b \in Batches}

\* C21: while a cycle is launching, every batch of every group has been
\* started, and each running batch can return whatever the other batches
\* are doing: none waits for another batch's process.
C21_AllBatchesConcurrent ==
    Launching =>
        \A b \in Batches :
            /\ Started(b)
            /\ Running(b) => ENABLED LaunchReturnsOf(b)

C21_Witness ==
    /\ Launching
    /\ Len(grouped_matched_jobs) = 2
    /\ Len(launch_results[1]) = 2
    /\ launch_results[1][1] = "Running"
    /\ launch_results[1][2] = "Ok"
    /\ launch_results[2][1] = "Err"

\* C22: while a launch of the cycle is in flight the successful-job-id set
\* and the matched jobs computed from it do not change; the set changes only
\* in the step that ends a cycle whose launches have all completed; the
\* matched jobs are computed only when no launch exists; the launches in
\* flight all belong to the one current cycle.
C22_SetTouchedOnlyBetweenPhases ==
    /\ [][(Launching /\ ~LaunchesDone) =>
            /\ successful_job_ids' = successful_job_ids
            /\ (lpc' = "launching" =>
                   (grouped_matched_jobs' = grouped_matched_jobs /\ pending_jobs' = pending_jobs))]_vars
    /\ [][(successful_job_ids' # successful_job_ids) =>
            (Launching /\ LaunchesDone /\ lpc' = "select")]_vars
    /\ [][(grouped_matched_jobs' # grouped_matched_jobs) =>
            (lpc = "select" \/ (lpc = "fetching" /\ launch_results = <<>>))]_vars
    /\ [](Launching => DOMAIN launch_results = DOMAIN grouped_matched_jobs)

C22_Witness ==
    /\ Launching
    /\ ~LaunchesDone
    /\ successful_job_ids # {}
    /\ \E b \in Batches : launch_results[b[1]][b[2]] = "Ok"
    /\ BatchedJobs \cap successful_job_ids = {}

CycleDone == lpc = "select" /\ poll_result = "Ok"
Failed(b) == launch_results[b[1]][b[2]] = "Err"

\* C23: in a completed cycle in which some batch's launch failed, every
\* batch was still launched and returned, and every batch whose launch
\* succeeded has all its job ids in the successful set.
C23_FailureIsolated ==
    (CycleDone /\ \E f \in Batches : Failed(f)) =>
        \A b \in Batches :
            /\ launch_results[b[1]][b[2]] \in {"Ok", "Err"}
            /\ ~Failed(b) => BatchJobs(b[1], b[2]) \subseteq successful_job_ids

C23_Witness ==
    /\ CycleDone
    /\ \E f, b \in Batches :
         /\ Failed(f)
         /\ ~Failed(b)
         /\ f[1] = b[1]
         /\ BatchJobs(b[1], b[2]) \subseteq successful_job_ids
         /\ BatchJobs(f[1], f[2]) \cap successful_job_ids = {}

Matchable(id) == FindMatch(iter_order, id) # "None"

\* C25: jobs of a failed batch are not in the successful set; in every
\* cycle each pending job that is not in the set and has an eligible
\* instance is in a batch, so a job that failed before is batched again; a
\* job without an eligible instance is never recorded as failed or
\* successful.
C25_FailedJobsRetried ==
    /\ failed_job_ids \cap successful_job_ids = {}
    /\ \A j \in JobIds : ~Matchable(j) => j \notin failed_job_ids \cup successful_job_ids
    /\ Launching =>
         /\ \A j \in Range(pending_jobs) :
              (j \notin successful_job_ids /\ Matchable(j)) => j \in BatchedJobs
         /\ \A j \in failed_job_ids \cap Range(pending_jobs) : j \in BatchedJobs
         /\ \A j \in BatchedJobs : Matchable(j)

C25_Witness ==
    /\ Launching
    /\ \E j \in failed_job_ids : j \in BatchedJobs
    /\ \E j \in Range(pending_jobs) : ~Matchable(j)
    /\ successful_job_ids # {}

\* C26: once cancellation is requested the poll task eventually exits and
\* run() eventually returns; run() returns only when the poll task has
\* exited, so never while a cycle is in flight.
C26_ShutdownCompletes ==
    /\ [](mpc = "returned" => (lpc = "exited" /\ cancelled))
    /\ [](mpc = "joining" => cancelled)
    /\ cancelled ~> (lpc = "exited")
    /\ (mpc = "joining") ~> (mpc = "returned")

C26_Witness ==
    /\ mpc = "returned"
    /\ lpc = "exited"
    /\ cancelled
    /\ poll_result = "Elapsed"
    /\ \E b \in Batches : Running(b)

Returned == p_pc = "returned"
Spawned == p_proc # "none"

\* C27 as stated: launch_runner returns success iff the process was spawned,
\* its input was written, it exited within the timeout and its exit code
\* was zero.
C27_SuccessIffCleanExit ==
    Returned =>
        (p_ret.ok <=> (Spawned /\ p_stdin = "written" /\ p_status = "got" /\ p_code = 0))

\* C27 amended: success iff spawned, input written, exit status obtained
\* within the timeout, both output streams read, and exit code zero; a spawn
\* failure, an input-write failure, a timeout, a failure to obtain the
\* status, a stream read failure and a non-zero exit code each yield a
\* failure.
C27_SuccessIffCleanExitAndRead ==
    Returned =>
        /\ p_ret.ok <=> (/\ Spawned
                         /\ p_stdin = "written"
                         /\ p_status = "got"
                         /\ p_stdout = "read"
                         /\ p_stderr = "read"
                         /\ p_code = 0)
        /\ ~Spawned <=> p_ret = LaunchErr("SpawnFailed")
        /\ p_stdin = "failed" <=> p_ret = LaunchErr("StdinFailed")
        /\ p_status = "elapsed" <=> p_ret = LaunchErr("Timeout")
        /\ p_status = "failed" <=> p_ret = LaunchErr("StatusFailed")
        /\ (p_stdout = "failed" \/ p_stderr = "failed") <=>
               p_ret \in {LaunchErr("StdoutFailed"), LaunchErr("StderrFailed")}
        /\ (p_status = "got" /\ p_stdout = "read" /\ p_stderr = "read" /\ p_code # 0) <=>
               p_ret = LaunchErr("NonZeroExit")

C27_Witness ==
    /\ Returned
    /\ ~p_ret.ok
    /\ p_stdin = "written"
    /\ p_status = "got"
    /\ p_code = 0
    /\ p_stderr = "failed"

\* C28: a launch that reached its deadline with the process running
\* returns the timeout failure and the process is killed; after any failure
\* return following a spawn, and after the launch is abandoned, the process
\* is not running.
C28_NoProcessLeftRunning ==
    /\ (Returned /\ p_status = "elapsed") =>
           (p_ret = LaunchErr("Timeout") /\ p_proc = "killed")
    /\ (Returned /\ Spawned /\ ~p_ret.ok) => p_proc \in {"exited", "killed"}
    /\ p_pc = "dropped" => p_proc \in {"exited", "killed"}
    /\ (p_pc = "waiting" /\ p_proc = "running" /\ DeadlineReached(p_config, p_elapsed)) =>
           ENABLED TimeoutElapses

C28_Witness ==
    /\ Returned
    /\ p_ret = LaunchErr("Timeout")
    /\ p_proc = "killed"
    /\ p_config.timeout = Some(1)
    /\ p_elapsed = 1

\* C29: whenever a launch with a spawned process returns success, a
\* non-zero exit or a timeout, both output streams were read to end.
C29_StreamsAlwaysDrained ==
    (Returned /\ Spawned /\ (p_ret.ok \/ p_ret.err \in {"NonZeroExit", "Timeout"})) =>
        (p_stdout = "read" /\ p_stderr = "read")

\* C30: run_single returns after every batch of its cycle was launched and
\* has returned, and it returns an error if any batch's launch failed.
C30_SingleSurfacesLaunchError ==
    mpc = "returned" =>
        /\ \A b \in Batches : launch_results[b[1]][b[2]] \in {"Ok", "Err"}
        /\ (\E b \in Batches : Failed(b)) => poll_result = "Err"

\* configure returned
Configured == c_pc = "returned"

\* the [[runners]] entries of the generated config file for name n
Entries(n) == {i \in DOMAIN generated : generated[i].name = n}

\* C31: after a configure that returned success the generated config holds
\* exactly one entry for each desired instance and none for any other name, and
\* each entry's id and token are those the token file holds for that name
C31_GeneratedMatchesStore ==
    (Configured /\ c_ret.kind = "Ok") =>
        /\ \A n \in runners : Cardinality(Entries(n)) = 1
        /\ \A i \in DOMAIN generated :
             /\ generated[i].name \in runners
             /\ generated[i].name \in DOMAIN store
             /\ generated[i].registration = store[generated[i].name]

\* C31 witness: a successful configure for all names, one of them registered
\* anew in this invocation
C31_Witness ==
    /\ Configured
    /\ c_ret.kind = "Ok"
    /\ runners = Names
    /\ \E n \in runners : n \in DOMAIN tokens /\ store[n] # tokens[n]

\* C40: whenever update_registrations returned Ok, the returned map has exactly
\* the desired names as keys, and the unwrap of the lookup in
\* instantiate_gitlab_runner_configurations has not panicked
C40_ReturnedKeysAreDesired ==
    /\ (rpc = "returned" /\ ret.kind = "Ok") => DOMAIN new_tokens = runners
    /\ c_ret.kind # "Panic"

\* C40 witness: the entries were built after a pass that registered one desired
\* name and dropped one undesired name
C40_Witness ==
    /\ c_pc = "writing"
    /\ to_add # <<>>
    /\ to_delete # <<>>
    /\ Len(instantiated_configs) = Cardinality(runners)

\* configure returned the error of one update, create or delete call
PerItemError == c_ret.kind = "Err" /\ c_ret.err.op \in {"update", "add", "delete"}

\* C37: after a configure that rewrote the token file, whatever it returned,
\* every name in the token file has an entry in the generated config with the
\* same token
C37_FilesAgree ==
    (Configured /\ writes = 1 /\ (c_ret.kind = "Ok" \/ PerItemError)) =>
        \A n \in DOMAIN store :
            \E i \in Entries(n) : generated[i].registration.token = store[n].token
\* C38 (as stated): once cancellation is requested and the poll task is at
\* its wait point, it never starts another cycle
C38_CancelWinsOverTick ==
    [][(lpc = "select" /\ cancelled) => lpc' # "fetching"]_vars

\* C38 (amended): with cancellation requested at the wait point and no tick
\* due, the poll task stays or exits and starts no cycle; another cycle starts
\* after the request only when a tick was due at that moment
C38_CancelWinsUnlessTickDue ==
    [][/\ (lpc = "select" /\ cancelled /\ ~tick_ready) => lpc' \in {"select", "exited"}
       /\ (lpc = "select" /\ cancelled /\ lpc' = "fetching") => tick_ready]_vars

\* C38 witness: the poll task exited after a completed cycle with no tick due
C38_Witness ==
    /\ lpc = "exited"
    /\ cancelled
    /\ ~tick_ready
    /\ poll_result = "Ok"

\* C36 (as stated): no job of a batch whose launch returned Ok in an earlier
\* cycle, completed or abandoned at its deadline, is in a batch of this cycle
C36_NeverRelaunched ==
    lpc = "launching" =>
        BatchedJobs \cap (exited_zero_job_ids.completed \cup exited_zero_job_ids.abandoned) = {}

\* C36 (amended): no job of a batch whose launch returned Ok in an earlier
\* cycle that completed within its deadline is in a batch of this cycle
C36_CompletedNeverRelaunched ==
    lpc = "launching" => BatchedJobs \cap exited_zero_job_ids.completed = {}

\* C36 witness: a job of an Ok batch of an earlier completed cycle is reported
\* pending again while other jobs are launched
C36_Witness ==
    /\ lpc = "launching"
    /\ BatchedJobs # {}
    /\ \E j \in exited_zero_job_ids.completed : j \in Range(pending_jobs)
\* C39: while launch_runner waits for the exit status of a running child, the
\* child is never held up by its own output, whatever its amount: it can still
\* write or exit, so that the status arrives without the timeout
C39_OutputNeverBlocksExit ==
    (p_pc = "waiting" /\ p_proc = "running") => ~Blocked
\* the levels of the lookup, highest precedence first
Levels == <<"instance_name", "current_exe", "additional_vars", "config_variables", "env_vars">>

\* the name looked up is defined at level l
DefinedAt(l) ==
    CASE l = "instance_name" -> x_var = "NAME"
      [] l = "current_exe" -> x_var = "THIS"
      [] l = "additional_vars" -> x_context = "launch" /\ x_var \in {"CONFIG", "NUM_JOBS"}
      [] l = "config_variables" -> x_var \in x_variables
      [] l = "env_vars" -> x_var \in x_env

\* C32: the lookup resolves a name to the first level, in the order NAME, THIS,
\* CONFIG and NUM_JOBS (launch templates only), instance variables,
\* environment, at which it is defined, and to the undefined-variable error
\* when it is defined at none
C32_LookupPrecedence ==
    x_result # NotExpanded =>
        LET defined == {i \in DOMAIN Levels : DefinedAt(Levels[i])}
        IN  IF defined = {} THEN x_result = Undefined
            ELSE \E i \in defined :
                    /\ \A j \in defined : i <= j
                    /\ x_result = Found(Levels[i])

\* C32 witness: CONFIG looked up for a launch template while the instance and
\* the environment define CONFIG too
C32_Witness ==
    /\ x_result = Found("additional_vars")
    /\ x_var = "CONFIG"
    /\ x_var \in x_variables
    /\ x_var \in x_env

\* C35: once check succeeded, no cycle panics at the unwraps of run_impl: the
\* launch section is there and the launch template expands for every instance
C35_UnwrapsNeverFail == x_unwraps # "Panic"
\* the prepare step of job j has returned
Prepared(j) == e_pc[j] = "returned"
PrepareFailed(j) == Prepared(j) /\ e_ret[j] # "Ok"

\* C33: with the prepare steps of all jobs running at once, the file at a
\* job's temporary path changes only in steps of that job's pull and rename,
\* the image file changes only by the rename of a job whose pull succeeded, a
\* failed pull leaves it as it was, and at every moment the image file is
\* missing or a completely pulled image
C33_ImageReplacedAtomically ==
    /\ [](e_image.present => e_image.complete)
    /\ [][/\ \A f \in TmpFilepaths :
               e_tmp'[f] # e_tmp[f] =>
                   f \in PrepareJobs /\ e_pc[f] \in {"pulling", "renaming"}
          /\ e_image' # e_image =>
               \E j \in PrepareJobs :
                   /\ e_pc[j] = "renaming"
                   /\ e_tmp[j] = "complete"
                   /\ e_ret'[j] = "Ok"
                   /\ e_image' = Image(j, TRUE)
          /\ \A j \in PrepareJobs :
               (e_pc[j] = "pulling" /\ e_pc'[j] = "returned") => e_image' = e_image]_vars

\* C33 witness: one job's rename has replaced the image while another job's
\* pull has written part of its own temporary file
C33_Witness ==
    \E j, k \in PrepareJobs :
        /\ j # k
        /\ e_image = Image(j, TRUE)
        /\ e_pc[k] = "pulling"
        /\ e_tmp[k] = "partial"

\* what C34 says of a returned prepare step that read image_exists as `exists`
\* (unknown: it never obtained it)
PolicyObeyed(j) ==
    /\ e_policy = "always" => e_pulled[j]
    /\ e_policy = "if-not-present" => (e_pulled[j] <=> e_exists[j] = "no")
    /\ e_policy = "never" => (~e_pulled[j] /\ (PrepareFailed(j) <=> e_exists[j] = "no"))
    /\ (~e_pulled[j] /\ ~(e_policy = "never" /\ e_exists[j] = "no")) =>
           (e_ret[j] = "Ok" /\ e_image.by # j /\ e_tmp[j] = "absent")

\* C34 (as stated): every returned prepare step pulled, failed or succeeded
\* as the pull policy and the existence of the image file prescribe
C34_PolicyDecidesPull == \A j \in PrepareJobs : Prepared(j) => PolicyObeyed(j)

\* C34 (amended): every returned prepare step that got past the creation of
\* its directories and obtained image_exists did as the pull policy
\* prescribes; one that did not has failed without spawning a pull
C34_PolicyDecidesPullOnceChecked ==
    \A j \in PrepareJobs :
        Prepared(j) =>
            IF e_exists[j] # "unknown" THEN PolicyObeyed(j)
            ELSE PrepareFailed(j) /\ ~e_pulled[j] /\ e_image.by # j

\* C34 witness: under if-not-present one step found the image missing and
\* pulled it, and another found it present and returned Ok without a pull
C34_Witness ==
    /\ e_policy = "if-not-present"
    /\ \E j, k \in PrepareJobs :
         /\ Prepared(j) /\ e_exists[j] = "no" /\ e_pulled[j] /\ e_ret[j] = "Ok"
         /\ Prepared(k) /\ e_exists[k] = "yes" /\ ~e_pulled[k] /\ e_ret[k] = "Ok"
====
